---------------------------- MODULE Spec2Model ----------------------------
(***************************************************************************)
(* Irish capital gains calculator: the per-ticker FIFO lot replay of       *)
(* ImprovedCapitalGainsCalculator.process_transactions and the yearly tax  *)
(* aggregation of generate_report / calculate_dividend_taxes.              *)
(*                                                                         *)
(* Numbers.  The program computes in binary floating point; the model      *)
(* computes in exact integers.  Quantities are whole shares.  In the       *)
(* replay, money is counted in a unit small enough that a unit price       *)
(* divided by a conversion ratio of the cache is again a whole number.     *)
(* In the tax computations the inputs are whole euros and every liability, *)
(* credit and tax is carried in euro cents (0.33 x g euros = 33 x g        *)
(* cents), so that the statutory percentages are exact.                    *)
(***************************************************************************)
EXTENDS Integers, Sequences, FiniteSets, TLC

(***************************************************************************)
(* Bounds of the model.                                                    *)
(***************************************************************************)
MaxEvents == 3
MaxQty == 2
MaxYear == 2

NoTicker == "none"

Years == 1..MaxYear

\* datetime.now().year: no transaction is dated after the run.
CurrentYear == MaxYear

Quantities == 1..MaxQty

\* Unit prices in EUR (PricePerShareEUR), multiples of every conversion ratio
\* and of 5, so that a fifth of a cost is a whole number.
Prices == {10, 20, 30}

\* Type and Quantity of a merger row: a negative quantity removes shares, any
\* other does nothing.
MergerRows == {<<"merger_stock", -1>>, <<"merger", -2>>, <<"merger_stock", 1>>}

\* Quantity and PricePerShareEUR of a broker transfer row.
TransferRows == {<<0, 0>>, <<-1, 0>>, <<1, 0>>, <<1, 10>>}

\* TotalAmountEUR of dividend and merger cash rows.
Amounts == {-3, 0, 3}
SellPrices == {20}
DividendAmounts == {3}

(***************************************************************************)
(* The instrument resolver: data/ticker_cache.json as loaded.              *)
(***************************************************************************)
ticker_cache ==
    [t \in {"ACME", "OLDCO", "DEFUNCT", "FUND"} |->
        CASE t = "ACME"    -> [type |-> "stock", active |-> TRUE,
                               merged_into |-> NoTicker, conversion_ratio |-> 1,
                               domicile |-> "US", currency |-> "USD"]
          [] t = "OLDCO"   -> [type |-> "stock", active |-> TRUE,
                               merged_into |-> "ACME", conversion_ratio |-> 2,
                               domicile |-> "US", currency |-> "USD"]
          [] t = "DEFUNCT" -> [type |-> "stock", active |-> FALSE,
                               merged_into |-> NoTicker, conversion_ratio |-> 1,
                               domicile |-> "IE", currency |-> "EUR"]
          [] t = "FUND"    -> [type |-> "etf", active |-> TRUE,
                               merged_into |-> NoTicker, conversion_ratio |-> 1,
                               domicile |-> "IE", currency |-> "EUR"]]

RawTickers == DOMAIN ticker_cache

\* The Ticker of a row that has none: the NaN pandas reads from an empty
\* cell.
NaNTicker == "<NaN>"

\* str(ticker).upper(), on the tickers that are drawn.
TickerUpper(t) ==
    CASE t = "nan" -> "NAN"
      [] t = "acme" -> "ACME"
      [] OTHER -> t

\* get_ticker_info (lines 59-77): <<>> for None, <<info>> for the entry of
\* the cache.  Every ticker drawn is in the cache or stands for no ticker,
\* so that no ticker is looked up elsewhere and added (lines 74-77).
get_ticker_info(t) ==
    IF t = NaNTicker \/ t = "" \/ TickerUpper(t) \in {"NONE", "NAN"}
    THEN <<>>
    ELSE <<ticker_cache[TickerUpper(t)]>>

\* Variant: a merged ticker keeps its own ledger.
normalize_ticker_unmerged(t) ==
    IF t = NaNTicker \/ t = "" \/ TickerUpper(t) = "NAN" \/ get_ticker_info(t) = <<>>
    THEN NoTicker
    ELSE TickerUpper(t)

\* normalize_ticker (lines 79-94); NoTicker stands for None.
normalize_ticker(t) ==
    IF t = NaNTicker \/ t = "" \/ TickerUpper(t) = "NAN"
    THEN NoTicker
    ELSE LET ticker_info == get_ticker_info(TickerUpper(t)) IN
         IF ticker_info = <<>>
         THEN NoTicker
         ELSE IF ticker_info[1].merged_into # NoTicker
         THEN ticker_info[1].merged_into
         ELSE TickerUpper(t)

get_conversion_ratio(t) == ticker_cache[t].conversion_ratio

is_etf(t) == ticker_cache[t].type = "etf"

is_active(t) == ticker_cache[t].active

get_domicile(t) == ticker_cache[t].domicile

\* The keys of the per-ticker replay: NormalizedTicker values.
Tickers == {normalize_ticker(t) : t \in RawTickers}

\* The raw tickers whose rows are replayed under ledger key t.
Originals(t) == {o \in RawTickers : normalize_ticker(o) = t}

AssetType(t) == IF is_etf(t) THEN "etfs" ELSE "stocks"

AssetTypes == {"stocks", "etfs"}

(***************************************************************************)
(* Dates are day numbers.  The years of the model stand eight calendar     *)
(* years (2922 days) apart, so that a row of the year before the current   *)
(* one is held for eight years to the day, or a day less.                  *)
(***************************************************************************)
\* years_held >= 8 (line 147)
DeemedDisposalYears == 8

\* .days / 365.25 (line 145), for four years
DaysPerFourYears == 1461

YearLength == (DeemedDisposalYears * DaysPerFourYears) \div 4

FirstDay(year) == (year - 1) * YearLength

\* df['Year'] = df['Date'].dt.year (line 258)
YearOf(date) == date \div YearLength + 1

\* datetime.now() (line 134): the run takes place on the first day of the
\* current year.
current_date == FirstDay(CurrentYear)

\* The dates a row of ticker t and the given year may carry.  Only the dates
\* of the rows retained for the deemed disposal of a fund are read for more
\* than sorting; they are told apart to the day.
DatesOf(year, t) ==
    IF is_etf(t) /\ year < CurrentYear
    THEN {FirstDay(year), FirstDay(year) + 1}
    ELSE {FirstDay(year)}

(***************************************************************************)
(* State of process_transactions.                                          *)
(***************************************************************************)
VARIABLES
    pc,             \* position in process_transactions
    ticker,         \* loop variable of the ticker loop (line 356)
    processed,      \* tickers whose iteration of the ticker loop is over
    n_events,       \* rows replayed so far in this run
    buy_queue,      \* deque of lots: quantity, price_per_share_eur, year
    total_shares,
    total_cost,
    transaction,    \* the row replayed last (loop variable, line 370)
    locals,         \* converted_quantity, total_cost_basis, realized_gain
    summary,        \* results['summary']
    ticker_detail,  \* results['ticker_detail']
    bought,         \* quantities bought so far on this ticker, converted
    sold,           \* quantities sold so far on this ticker, converted
    oversold,       \* some Sell of this ticker exceeded the quantity held
    kinds           \* the Types of the rows replayed so far on this ticker

(***************************************************************************)
(* State of generate_report.                                               *)
(***************************************************************************)
VARIABLES
    rpc,                \* position in generate_report
    all_years,          \* the years the report iterates (lines 636-639)
    report_log,         \* the years whose iteration is over, in order
    accumulated_losses, \* the stock loss accumulator (line 649)
    dividend_taxes,     \* calculate_dividend_taxes(results, margin_rate)
    figures,            \* the figures of the year handled last
    report,             \* the figures of the years handled, as reported
    losses_total,       \* sum of the stock losses of the years handled
    used_total          \* sum of carry_forward_used of the years handled

(***************************************************************************)
(* State of the first part of process_transactions (lines 257-316), which  *)
(* turns the rows read into the rows replayed.                             *)
(***************************************************************************)
VARIABLES
    ppc,            \* position in that part
    df,             \* the rows given, with the columns computed so far
    relevant_df     \* the rows kept for the replay (lines 312-316)

(***************************************************************************)
(* State of a caller that runs process_transactions and generate_report    *)
(* twice on the same arguments.                                            *)
(***************************************************************************)
VARIABLES
    run,            \* 0: no such caller; 1, 2: the run under way
    stream,         \* the rows of relevant_df, in the order of their replay
    margin,         \* the margin_rate given to generate_report
    first           \* what the first run returned

rerunVars == <<run, stream, margin, first>>

(***************************************************************************)
(* State of export_to_csv.                                                 *)
(***************************************************************************)
VARIABLES
    epc,            \* "idle" until export_to_csv has run, then "done"
    summary_rows    \* the rows of the tax summary file (lines 803-868)

exportVars == <<epc, summary_rows>>

prepVars == <<ppc, df, relevant_df>>

reportVars == <<rpc, all_years, report_log, accumulated_losses, dividend_taxes,
                figures, report, losses_total, used_total>>

replayVars == <<pc, ticker, processed, n_events, buy_queue, total_shares,
                total_cost, transaction, locals, summary, ticker_detail,
                bought, sold, oversold, kinds>>

vars == <<replayVars, reportVars, prepVars, rerunVars, exportVars>>

(***************************************************************************)
(* defaultdict(float): a map from the years that have been written or read *)
(* to numbers.  Reading a year that is no key yields 0 and makes it a key. *)
(***************************************************************************)
EmptyByYear == [y \in {} |-> 0]

Get(d, y) == IF y \in DOMAIN d THEN d[y] ELSE 0

\* d[y] += amount
Add(d, y, amount) == [k \in DOMAIN d \cup {y} |-> IF k = y THEN Get(d, y) + amount ELSE d[k]]

\* d[y] read
Touch(d, y) == Add(d, y, 0)

NoTransaction ==
    [Type |-> "none", Ticker |-> NoTicker, Quantity |-> 0,
     PricePerShareEUR |-> 0, TotalAmountEUR |-> 0, Year |-> 1, Date |-> 0]

\* The value of a local that has not been assigned, or of a column that holds
\* NaN.
Unset == <<>>

NoLocals ==
    [converted_quantity |-> 0, total_cost_basis |-> 0, realized_gain |-> 0,
     ticker_data |-> Unset, avg_fx_rate |-> Unset]

\* The key 'currency' of a ticker's detail before line 532 or 554 sets it.
NoCurrency == ""

\* An average cost as the quotient the code computes, kept exact.
NoAverage == [num |-> 0, den |-> 1]

InitSummary ==
    [a \in AssetTypes |->
        IF a = "stocks"
        THEN [realized_gains |-> EmptyByYear, dividends |-> EmptyByYear,
              dividends_irish |-> EmptyByYear, dividends_foreign |-> EmptyByYear]
        ELSE [realized_gains |-> EmptyByYear, dividends |-> EmptyByYear,
              dividends_irish |-> EmptyByYear, dividends_foreign |-> EmptyByYear,
              deemed_disposal_gains |-> EmptyByYear]]

InitTickerDetail ==
    [t \in Tickers |->
        [asset_type |-> "", realized_gains |-> EmptyByYear,
         dividends |-> EmptyByYear, dividends_irish |-> EmptyByYear,
         dividends_foreign |-> EmptyByYear, current_holdings |-> 0,
         avg_cost_basis |-> NoAverage, currency |-> NoCurrency,
         deemed_disposal_liability |-> 0, buy_transactions |-> <<>>]]

NoFigures == [year |-> 0]

ReportIdle ==
    /\ rpc = "idle"
    /\ all_years = {}
    /\ report_log = <<>>
    /\ accumulated_losses = 0
    /\ dividend_taxes = EmptyByYear
    /\ figures = NoFigures
    /\ report = <<>>
    /\ losses_total = 0
    /\ used_total = 0

ReplayStart ==
    /\ pc = "tickers"
    /\ ticker = NoTicker
    /\ processed = {}
    /\ n_events = 0
    /\ buy_queue = <<>>
    /\ total_shares = 0
    /\ total_cost = 0
    /\ transaction = NoTransaction
    /\ locals = NoLocals
    /\ summary = InitSummary
    /\ ticker_detail = InitTickerDetail
    /\ bought = 0
    /\ sold = 0
    /\ oversold = FALSE
    /\ kinds = {}

PrepIdle ==
    /\ ppc = "idle"
    /\ df = <<>>
    /\ relevant_df = <<>>

RerunIdle ==
    /\ run = 0
    /\ stream = <<>>
    /\ margin = 0
    /\ first = <<>>

ExportIdle ==
    /\ epc = "idle"
    /\ summary_rows = <<>>

Init == ReplayStart /\ ReportIdle /\ PrepIdle /\ RerunIdle /\ ExportIdle

(***************************************************************************)
(* Sums over the lots of a queue.                                          *)
(***************************************************************************)
RECURSIVE SumQuantity(_)
SumQuantity(q) ==
    IF q = <<>> THEN 0 ELSE Head(q).quantity + SumQuantity(Tail(q))

RECURSIVE SumCost(_)
SumCost(q) ==
    IF q = <<>> THEN 0
    ELSE Head(q).quantity * Head(q).price_per_share_eur + SumCost(Tail(q))


(***************************************************************************)
(* Buy (lines 389-413).                                                    *)
(***************************************************************************)
\* Variant: the conversion ratio of a merged ticker is not applied.
ConvertedQuantityUnconverted(quantity, conversion_ratio) == quantity

ConvertedQuantity(quantity, conversion_ratio) == quantity * conversion_ratio

\* Variant: the unit price of a merged ticker is not divided by the ratio.
ConvertedPriceUnconverted(price_per_share_eur, conversion_ratio) ==
    price_per_share_eur

ConvertedPrice(price_per_share_eur, conversion_ratio) ==
    IF conversion_ratio > 0
    THEN price_per_share_eur \div conversion_ratio
    ELSE price_per_share_eur

BuyLot(tx) ==
    [quantity |-> ConvertedQuantity(tx.Quantity, get_conversion_ratio(tx.Ticker)),
     price_per_share_eur |->
         ConvertedPrice(tx.PricePerShareEUR, get_conversion_ratio(tx.Ticker)),
     year |-> tx.Year]

\* share_cost: the original price and quantity, not the converted ones.
ShareCost(tx) == tx.PricePerShareEUR * tx.Quantity

(***************************************************************************)
(* The consumption loop of a Sell (lines 420-441): the lots are taken from *)
(* the front of the deque while something remains to sell.                 *)
(***************************************************************************)
\* Variant: the lots are taken from the back of the deque, newest first.
RECURSIVE SellLoopNewestFirst(_, _)
SellLoopNewestFirst(queue, remaining_to_sell) ==
    IF remaining_to_sell > 0 /\ queue # <<>>
    THEN LET n == Len(queue)
             buy_transaction == queue[n]
         IN
         IF buy_transaction.quantity <= remaining_to_sell
         THEN LET sold_quantity == buy_transaction.quantity
                  cost_basis == sold_quantity * buy_transaction.price_per_share_eur
                  rest == SellLoopNewestFirst(SubSeq(queue, 1, n - 1),
                                              remaining_to_sell - sold_quantity)
              IN  [queue |-> rest.queue,
                   total_cost_basis |-> cost_basis + rest.total_cost_basis,
                   shares |-> sold_quantity + rest.shares]
         ELSE LET sold_quantity == remaining_to_sell
                  cost_basis == sold_quantity * buy_transaction.price_per_share_eur
              IN  [queue |-> SubSeq(queue, 1, n - 1) \o
                                <<[buy_transaction EXCEPT !.quantity = @ - sold_quantity]>>,
                   total_cost_basis |-> cost_basis,
                   shares |-> sold_quantity]
    ELSE [queue |-> queue, total_cost_basis |-> 0, shares |-> 0]

\* Variant: what the queue could not supply is deducted from the running
\* total all the same.
RECURSIVE SellLoopCountsShortfall(_, _)
SellLoopCountsShortfall(queue, remaining_to_sell) ==
    IF remaining_to_sell > 0 /\ queue # <<>>
    THEN LET buy_transaction == Head(queue) IN
         IF buy_transaction.quantity <= remaining_to_sell
         THEN LET sold_quantity == buy_transaction.quantity
                  cost_basis == sold_quantity * buy_transaction.price_per_share_eur
                  rest == SellLoopCountsShortfall(Tail(queue),
                                                  remaining_to_sell - sold_quantity)
              IN  [queue |-> rest.queue,
                   total_cost_basis |-> cost_basis + rest.total_cost_basis,
                   shares |-> sold_quantity + rest.shares]
         ELSE LET sold_quantity == remaining_to_sell
                  cost_basis == sold_quantity * buy_transaction.price_per_share_eur
              IN  [queue |-> <<[buy_transaction EXCEPT
                                   !.quantity = @ - sold_quantity]>> \o Tail(queue),
                   total_cost_basis |-> cost_basis,
                   shares |-> sold_quantity]
    ELSE [queue |-> queue, total_cost_basis |-> 0, shares |-> remaining_to_sell]

RECURSIVE SellLoop(_, _)
SellLoop(queue, remaining_to_sell) ==
    IF remaining_to_sell > 0 /\ queue # <<>>
    THEN LET buy_transaction == Head(queue) IN
         IF buy_transaction.quantity <= remaining_to_sell
         THEN LET sold_quantity == buy_transaction.quantity
                  cost_basis == sold_quantity * buy_transaction.price_per_share_eur
                  rest == SellLoop(Tail(queue), remaining_to_sell - sold_quantity)
              IN  [queue |-> rest.queue,
                   total_cost_basis |-> cost_basis + rest.total_cost_basis,
                   shares |-> sold_quantity + rest.shares]
         ELSE LET sold_quantity == remaining_to_sell
                  cost_basis == sold_quantity * buy_transaction.price_per_share_eur
              IN  [queue |-> <<[buy_transaction EXCEPT
                                   !.quantity = @ - sold_quantity]>> \o Tail(queue),
                   total_cost_basis |-> cost_basis,
                   shares |-> sold_quantity]
    ELSE [queue |-> queue, total_cost_basis |-> 0, shares |-> 0]

\* share_proceeds - total_cost_basis (lines 444-445).
RealizedGain(tx, total_cost_basis) ==
    tx.PricePerShareEUR * tx.Quantity - total_cost_basis

\* Variant: the gain is booked under the acquisition year of the oldest lot.
GainYearOfLot(tx, queue) == IF queue # <<>> THEN Head(queue).year ELSE tx.Year

\* The year under which a Sell's gain is booked (lines 371, 446-447).
GainYear(tx, queue) == tx.Year

(***************************************************************************)
(* The removal loop of a merger row with negative quantity (lines          *)
(* 456-473): the same walk, written a second time in the source, keeping   *)
(* no cost basis total.                                                    *)
(***************************************************************************)
RECURSIVE RemoveLoop(_, _)
RemoveLoop(queue, remaining_to_remove) ==
    IF remaining_to_remove > 0 /\ queue # <<>>
    THEN LET buy_transaction == Head(queue) IN
         IF buy_transaction.quantity <= remaining_to_remove
         THEN LET removed_quantity == buy_transaction.quantity
                  cost_basis == removed_quantity * buy_transaction.price_per_share_eur
                  rest == RemoveLoop(Tail(queue), remaining_to_remove - removed_quantity)
              IN  [queue |-> rest.queue,
                   cost |-> cost_basis + rest.cost,
                   shares |-> removed_quantity + rest.shares]
         ELSE LET removed_quantity == remaining_to_remove
                  cost_basis == removed_quantity * buy_transaction.price_per_share_eur
              IN  [queue |-> <<[buy_transaction EXCEPT
                                   !.quantity = @ - removed_quantity]>> \o Tail(queue),
                   cost |-> cost_basis,
                   shares |-> removed_quantity]
    ELSE [queue |-> queue, cost |-> 0, shares |-> 0]

Abs(x) == IF x < 0 THEN -x ELSE x

(***************************************************************************)
(* results[...][field][year] += amount on the summary of one asset class   *)
(* and on the detail of one ticker.                                        *)
(***************************************************************************)
AddSummary(s, asset_type, field, year, amount) ==
    [s EXCEPT ![asset_type][field] = Add(@, year, amount)]

\* Variant: the ticker detail keeps the sub-totals and the gains, and not
\* the dividends total.
AddDetailSubTotalsOnly(d, t, field, year, amount) ==
    IF field = "dividends" THEN d
    ELSE [d EXCEPT ![t][field] = Add(@, year, amount)]

AddDetail(d, t, field, year, amount) ==
    [d EXCEPT ![t][field] = Add(@, year, amount)]

(***************************************************************************)
(* The ticker loop (lines 356-368): the next ticker of                     *)
(* relevant_df['NormalizedTicker'].unique(), a fresh deque and totals.     *)
(***************************************************************************)
StartLoopBody ==
    /\ pc \in {"tickers", "finished"}
    /\ n_events < MaxEvents
    /\ \E t \in Tickers \ processed :
          /\ ticker' = t
          /\ ticker_detail' = [ticker_detail EXCEPT ![t].asset_type = AssetType(t)]
    /\ pc' = "replay"
    /\ buy_queue' = <<>>
    /\ total_shares' = 0
    /\ total_cost' = 0
    /\ transaction' = NoTransaction
    /\ locals' = NoLocals
    /\ bought' = 0
    /\ sold' = 0
    /\ oversold' = FALSE
    /\ kinds' = {}
    /\ UNCHANGED <<processed, n_events, summary>>
    /\ UNCHANGED <<reportVars, prepVars>>

StartTicker ==
    /\ StartLoopBody
    /\ UNCHANGED <<rerunVars, exportVars>>

\* A row of ticker_data: the rows come in ascending Date (line 360).
CanReplay(date) ==
    /\ pc = "replay"
    /\ n_events < MaxEvents
    /\ date >= transaction.Date

\* The dates the next row of the ticker may carry if it is of the given
\* year.  A row that is not retained is dated no later than it has to be.
RowDates(year, retained) ==
    IF pc # "replay"
    THEN {}
    ELSE IF retained
    THEN {d \in DatesOf(year, ticker) : d >= transaction.Date}
    ELSE IF year >= transaction.Year
         THEN {IF FirstDay(year) >= transaction.Date
               THEN FirstDay(year) ELSE transaction.Date}
         ELSE {}

Row(type, original_ticker, quantity, price, amount, date) ==
    [Type |-> type, Ticker |-> original_ticker, Quantity |-> quantity,
     PricePerShareEUR |-> price, TotalAmountEUR |-> amount,
     Year |-> YearOf(date), Date |-> date]

\* results['ticker_detail'][ticker]['buy_transactions'].append(transaction),
\* for a fund only (lines 406-407, 495-496).
Retain(d, t, tx) ==
    IF is_etf(t)
    THEN [d EXCEPT ![t].buy_transactions = Append(@, tx)]
    ELSE d

\* Variant: every dividend is classified foreign.
DividendSplitAlwaysForeign(t) == "dividends_foreign"

\* The sub-total a dividend of ticker t goes to (lines 380-387).
DividendSplit(t) ==
    IF get_domicile(t) = "IE" THEN "dividends_irish" ELSE "dividends_foreign"

Dividend ==
    \E o \in {ticker}, amount_eur \in DividendAmounts, year \in Years :
    \E date \in RowDates(year, FALSE) :
      LET asset_type == AssetType(ticker)
          split == DividendSplit(ticker)
      IN
      /\ CanReplay(date)
      /\ transaction' = Row("dividend", o, 0, 0, amount_eur, date)
      /\ summary' = AddSummary(AddSummary(summary, asset_type, "dividends", year, amount_eur),
                               asset_type, split, year, amount_eur)
      /\ ticker_detail' = AddDetail(AddDetail(ticker_detail, ticker, "dividends", year, amount_eur),
                                    ticker, split, year, amount_eur)
      /\ locals' = NoLocals
      /\ n_events' = n_events + 1
      /\ kinds' = kinds \cup {transaction'.Type}
      /\ UNCHANGED <<pc, ticker, processed, buy_queue, total_shares, total_cost,
                     bought, sold, oversold>>
      /\ UNCHANGED <<reportVars, prepVars, rerunVars, exportVars>>

Buy ==
    \E o \in Originals(ticker), quantity \in Quantities, price \in Prices,
       year \in Years :
    \E date \in RowDates(year, TRUE) :
      LET tx == Row("buy", o, quantity, price, 0, date)
          lot == BuyLot(tx)
      IN
      /\ CanReplay(date)
      /\ transaction' = tx
      /\ buy_queue' = Append(buy_queue, lot)
      /\ total_shares' = total_shares + lot.quantity
      /\ total_cost' = total_cost + ShareCost(tx)
      /\ locals' = [NoLocals EXCEPT !.converted_quantity = lot.quantity]
      /\ ticker_detail' = Retain(ticker_detail, ticker, tx)
      /\ bought' = bought + quantity * get_conversion_ratio(o)
      /\ n_events' = n_events + 1
      /\ kinds' = kinds \cup {transaction'.Type}
      /\ UNCHANGED <<pc, ticker, processed, summary, sold, oversold>>
      /\ UNCHANGED <<reportVars, prepVars, rerunVars, exportVars>>

Sell ==
    \E o \in Originals(ticker), quantity \in Quantities, price \in SellPrices,
       year \in Years :
    \E date \in RowDates(year, FALSE) :
      LET tx == Row("sell", o, quantity, price, 0, date)
          asset_type == AssetType(ticker)
          converted_quantity == ConvertedQuantity(quantity, get_conversion_ratio(o))
          out == SellLoop(buy_queue, converted_quantity)
          realized_gain == RealizedGain(tx, out.total_cost_basis)
          gain_year == GainYear(tx, buy_queue)
      IN
      /\ CanReplay(date)
      /\ transaction' = tx
      /\ buy_queue' = out.queue
      /\ total_shares' = total_shares - out.shares
      /\ total_cost' = total_cost - out.total_cost_basis
      /\ summary' = AddSummary(summary, asset_type, "realized_gains", gain_year, realized_gain)
      /\ ticker_detail' = AddDetail(ticker_detail, ticker, "realized_gains", gain_year, realized_gain)
      /\ locals' = [converted_quantity |-> converted_quantity,
                    total_cost_basis |-> out.total_cost_basis,
                    realized_gain |-> realized_gain,
                    ticker_data |-> Unset, avg_fx_rate |-> Unset]
      /\ sold' = sold + quantity * get_conversion_ratio(o)
      /\ oversold' = (oversold \/ quantity * get_conversion_ratio(o) > SumQuantity(buy_queue))
      /\ n_events' = n_events + 1
      /\ kinds' = kinds \cup {transaction'.Type}
      /\ UNCHANGED <<pc, ticker, processed, bought>>
      /\ UNCHANGED <<reportVars, prepVars, rerunVars, exportVars>>

\* merger_stock and merger rows (lines 449-473).
Merger ==
    \E row \in MergerRows, o \in Originals(ticker), year \in Years :
    \E date \in RowDates(year, FALSE) :
      LET type == row[1]
          quantity == row[2]
          out == IF quantity < 0
                 THEN RemoveLoop(buy_queue, Abs(quantity))
                 ELSE [queue |-> buy_queue, cost |-> 0, shares |-> 0]
      IN
      /\ CanReplay(date)
      /\ transaction' = Row(type, o, quantity, 0, 0, date)
      /\ buy_queue' = out.queue
      /\ total_shares' = total_shares - out.shares
      /\ total_cost' = total_cost - out.cost
      /\ locals' = NoLocals
      /\ n_events' = n_events + 1
      /\ kinds' = kinds \cup {transaction'.Type}
      /\ UNCHANGED <<pc, ticker, processed, summary, ticker_detail, bought, sold,
                     oversold>>
      /\ UNCHANGED <<reportVars, prepVars, rerunVars, exportVars>>

\* Variant: merger cash is classified by the domicile, as a dividend is.
MergerCashSplitByDomicile(t) == DividendSplit(t)

\* The sub-total merger cash of ticker t goes to (lines 481-483).
MergerCashSplit(t) == "dividends_foreign"

\* merger_cash rows (lines 475-483).
MergerCash ==
    \E o \in {ticker}, amount_eur \in Amounts, year \in Years :
    \E date \in RowDates(year, FALSE) :
      LET asset_type == AssetType(ticker)
          split == MergerCashSplit(ticker)
      IN
      /\ CanReplay(date)
      /\ transaction' = Row("merger_cash", o, 0, 0, amount_eur, date)
      /\ IF amount_eur > 0
         THEN /\ summary' = AddSummary(AddSummary(summary, asset_type, "dividends", year, amount_eur),
                                       asset_type, split, year, amount_eur)
              /\ ticker_detail' = AddDetail(AddDetail(ticker_detail, ticker, "dividends", year, amount_eur),
                                            ticker, split, year, amount_eur)
         ELSE UNCHANGED <<summary, ticker_detail>>
      /\ locals' = NoLocals
      /\ n_events' = n_events + 1
      /\ kinds' = kinds \cup {transaction'.Type}
      /\ UNCHANGED <<pc, ticker, processed, buy_queue, total_shares, total_cost,
                     bought, sold, oversold>>
      /\ UNCHANGED <<reportVars, prepVars, rerunVars, exportVars>>

\* Variant: the lot takes the unit price recorded on the row.
TransferLotAtRecordedPrice(tx) ==
    [quantity |-> tx.Quantity, price_per_share_eur |-> tx.PricePerShareEUR,
     year |-> tx.Year]

\* The lot of a transfer_merger row (lines 488-492).
TransferLot(tx) ==
    [quantity |-> tx.Quantity, price_per_share_eur |-> 0, year |-> tx.Year]

\* transfer_merger rows (lines 485-500).
TransferMerger ==
    \E o \in {ticker}, row \in TransferRows, year \in Years :
    \E date \in RowDates(year, TRUE) :
      LET quantity == row[1]
          tx == Row("transfer_merger", o, quantity, row[2], 0, date)
      IN
      /\ CanReplay(date)
      /\ transaction' = tx
      /\ IF quantity > 0
         THEN /\ buy_queue' = Append(buy_queue, TransferLot(tx))
              /\ ticker_detail' = Retain(ticker_detail, ticker, tx)
              /\ total_shares' = total_shares + quantity
         ELSE UNCHANGED <<buy_queue, ticker_detail, total_shares>>
      /\ locals' = NoLocals
      /\ n_events' = n_events + 1
      /\ kinds' = kinds \cup {transaction'.Type}
      /\ UNCHANGED <<pc, ticker, processed, total_cost, summary,
                     bought, sold, oversold>>
      /\ UNCHANGED <<reportVars, prepVars, rerunVars, exportVars>>

(***************************************************************************)
(* calculate_deemed_disposal_liability (lines 128-168): of the rows given, *)
(* those held for eight years or more on current_date count, each for the *)
(* gain its cost would show had it grown by a fifth.  The gain is in EUR,  *)
(* the liability in hundredths of it.                                      *)
(***************************************************************************)
\* cost_basis * 1.2 (line 153), in tenths
DeemedValueTenths == 12

\* total_taxable_gain * 0.41 (line 167), in hundredths
DeemedExitTaxPercent == 41

\* Variant: a row held for eight years to the day does not count yet.
HeldMoreThanEightYears(purchase_date, now) ==
    (now - purchase_date) * 4 > DeemedDisposalYears * DaysPerFourYears

\* (current_date - purchase_date).days / 365.25 >= 8 (lines 145-147)
HeldEightYears(purchase_date, now) ==
    (now - purchase_date) * 4 >= DeemedDisposalYears * DaysPerFourYears

\* Variant: a row counts at the unit cost of the lot it made, which is 0 for
\* a broker transfer.
DeemedGainAtLotCost(tx) ==
    IF tx.Type = "transfer_merger" THEN 0
    ELSE (tx.PricePerShareEUR * tx.Quantity * DeemedValueTenths) \div 10
            - tx.PricePerShareEUR * tx.Quantity

\* taxable_gain of one row (lines 151-154)
DeemedGain(tx) ==
    LET cost_basis == tx.PricePerShareEUR * tx.Quantity
        estimated_current_value == (cost_basis * DeemedValueTenths) \div 10
    IN  estimated_current_value - cost_basis

RECURSIVE DeemedGains(_, _)
DeemedGains(buy_transactions, now) ==
    IF buy_transactions = <<>> THEN 0
    ELSE (IF HeldEightYears(Head(buy_transactions).Date, now)
          THEN DeemedGain(Head(buy_transactions)) ELSE 0)
         + DeemedGains(Tail(buy_transactions), now)

calculate_deemed_disposal_liability(t, buy_transactions, now) ==
    IF ~is_etf(t)
    THEN [total_taxable_gain |-> 0, tax_liability |-> 0]
    ELSE LET total_taxable_gain == DeemedGains(buy_transactions, now)
         IN  [total_taxable_gain |-> total_taxable_gain,
              tax_liability |-> total_taxable_gain * DeemedExitTaxPercent]

(***************************************************************************)
(* The columns of ticker_data that only get_weighted_fx_rate reads         *)
(* (lines 241-248): the kind, the Currency, the FX Rate and the            *)
(* TotalAmountEUR of the ticker's buy and sell rows.  The replay of a buy  *)
(* or a sell reads Quantity and PricePerShareEUR only, so these columns    *)
(* are drawn where they are read.  A row in a currency other than EUR      *)
(* carries a present, positive rate, or convert_to_eur would have raised   *)
(* at line 296.                                                            *)
(***************************************************************************)
FxRow(type, currency, fx_rate, amount_eur) ==
    [TransactionType |-> type, Currency |-> currency, FXRate |-> fx_rate,
     TotalAmountEUR |-> amount_eur]

FxAmount == 20

FxColumns ==
    {<<FxRow(type, "EUR", Unset, FxAmount)>> : type \in {"buy", "sell"}}
    \cup {<<FxRow(type, "USD", <<2>>, FxAmount)>> : type \in {"buy", "sell"}}
    \cup {<<FxRow("buy", "USD", <<2>>, 0)>>,
          <<FxRow("buy", "EUR", Unset, FxAmount),
            FxRow("sell", "EUR", Unset, FxAmount)>>,
          <<FxRow("buy", "EUR", Unset, FxAmount),
            FxRow("sell", "USD", <<2>>, FxAmount)>>,
          <<FxRow("buy", "USD", <<2>>, FxAmount),
            FxRow("sell", "USD", <<4>>, FxAmount)>>}

\* The columns a ticker whose rows were of the given kinds may carry: one
\* row for each of the kinds buy and sell that was replayed.
FxColumnsOf(row_kinds) ==
    IF row_kinds \cap {"buy", "sell"} = {}
    THEN {<<>>}
    ELSE {rows \in FxColumns :
            {rows[i].TransactionType : i \in 1..Len(rows)}
                = row_kinds \cap {"buy", "sell"}}

RECURSIVE FxTotals(_)
FxTotals(rows) ==
    IF rows = <<>>
    THEN [total_amount_original |-> 0, total_amount_eur |-> 0]
    ELSE LET tx == Head(rows)
             rest == FxTotals(Tail(rows))
             counted == /\ tx.TransactionType \in {"buy", "sell"}
                        /\ tx.Currency # "EUR"
                        /\ tx.FXRate # Unset
                        /\ tx.FXRate[1] > 0
         IN  IF counted
             THEN [total_amount_original |->
                       rest.total_amount_original + tx.TotalAmountEUR * tx.FXRate[1],
                   total_amount_eur |-> rest.total_amount_eur + tx.TotalAmountEUR]
             ELSE rest

\* get_weighted_fx_rate (lines 236-253): the rate, or Unset for the
\* ValueError of line 253.  The drawn columns give a whole quotient.
get_weighted_fx_rate(ticker_transactions) ==
    LET totals == FxTotals(ticker_transactions)
    IN  IF totals.total_amount_eur > 0
        THEN <<totals.total_amount_original \div totals.total_amount_eur>>
        ELSE Unset

\* ticker_info.get('currency', 'USD') of line 528.
OriginalCurrency(t) == ticker_cache[t].currency

(***************************************************************************)
(* After the rows of a ticker (lines 502-554): an inactive ticker's        *)
(* residual cost is booked as a loss of the current year and the two       *)
(* totals are zeroed, the deque being left as it is; the deemed disposal   *)
(* of a fund with retained rows is computed, its liability stored and its  *)
(* gain, if positive, booked under the current year; the holdings are      *)
(* stored.  Then the average cost of what is held and its currency are     *)
(* stored (lines 524-554): in EUR for an instrument quoted in EUR; for any *)
(* other, the cost times the weighted FX rate over the shares, or, when    *)
(* get_weighted_fx_rate raises, the cost in EUR over the shares with the   *)
(* currency set to EUR at line 551; and line 554, which follows the whole  *)
(* branch, sets the currency to the instrument's own.                      *)
(***************************************************************************)
FinishTickerOn(ticker_data) ==
    /\ pc = "replay"
    /\ transaction.Type # "none"
    /\ LET asset_type == AssetType(ticker)
           write_off == ~is_active(ticker) /\ total_shares > 0
           loss_amount == total_cost
           shares == IF write_off THEN 0 ELSE total_shares
           summary_1 == IF write_off
                        THEN AddSummary(summary, asset_type, "realized_gains",
                                        CurrentYear, -loss_amount)
                        ELSE summary
           detail_1 == IF write_off
                       THEN AddDetail(ticker_detail, ticker, "realized_gains",
                                      CurrentYear, -loss_amount)
                       ELSE ticker_detail
           deemed == is_etf(ticker) /\ ticker_detail[ticker].buy_transactions # <<>>
           out == calculate_deemed_disposal_liability(
                      ticker, ticker_detail[ticker].buy_transactions, current_date)
           summary_2 == IF deemed /\ out.total_taxable_gain > 0
                        THEN AddSummary(summary_1, "etfs", "deemed_disposal_gains",
                                        CurrentYear, out.total_taxable_gain)
                        ELSE summary_1
           detail_2 == IF deemed
                       THEN [detail_1 EXCEPT
                               ![ticker].deemed_disposal_liability = out.tax_liability]
                       ELSE detail_1
           cost == IF write_off THEN 0 ELSE total_cost
           original_currency == OriginalCurrency(ticker)
           called == original_currency # "EUR" /\ shares > 0
           avg_fx_rate == IF called THEN get_weighted_fx_rate(ticker_data) ELSE Unset
           avg_cost_basis ==
               IF shares <= 0
               THEN NoAverage
               ELSE IF original_currency = "EUR" \/ avg_fx_rate = Unset
                    THEN [num |-> cost, den |-> shares]
                    ELSE [num |-> cost * avg_fx_rate[1], den |-> shares]
       IN
       /\ summary' = summary_2
       /\ ticker_detail' = [detail_2 EXCEPT ![ticker].current_holdings = shares,
                                            ![ticker].avg_cost_basis = avg_cost_basis,
                                            ![ticker].currency = original_currency]
       /\ total_shares' = shares
       /\ total_cost' = cost
       /\ locals' = [locals EXCEPT !.ticker_data = ticker_data,
                                   !.avg_fx_rate = avg_fx_rate]
    /\ pc' = "finished"
    /\ processed' = processed \cup {ticker}
    /\ UNCHANGED <<ticker, n_events, buy_queue, transaction,
                   bought, sold, oversold, kinds>>
    /\ UNCHANGED <<reportVars, prepVars, rerunVars, exportVars>>

\* The end of a ticker's rows, with the columns of its buy and sell rows
\* drawn if line 546 reads them.
FinishTicker ==
    /\ pc = "replay"
    /\ \E ticker_data \in
           IF OriginalCurrency(ticker) # "EUR" /\ is_active(ticker) /\ total_shares > 0
           THEN FxColumnsOf(kinds)
           ELSE {<<>>} :
         FinishTickerOn(ticker_data)

Next ==
    \/ StartTicker
    \/ Dividend
    \/ Buy
    \/ Sell
    \/ Merger
    \/ MergerCash
    \/ TransferMerger
    \/ FinishTicker

Spec == Init /\ [][Next]_vars

(***************************************************************************)
(* Reference notions for the claims on the lot ledger.                     *)
(***************************************************************************)
\* The unit costs of the shares of a queue, one entry per share, in
\* acquisition order.
RECURSIVE UnitCosts(_)
UnitCosts(q) ==
    IF q = <<>> THEN <<>>
    ELSE [i \in 1..Head(q).quantity |-> Head(q).price_per_share_eur]
            \o UnitCosts(Tail(q))

RECURSIVE SumSeq(_)
SumSeq(u) == IF u = <<>> THEN 0 ELSE Head(u) + SumSeq(Tail(u))

Min(a, b) == IF a <= b THEN a ELSE b

\* The cost of the first s shares of a queue in acquisition order (of all of
\* them when the queue holds fewer).
FirstUnitsCost(q, s) ==
    LET u == UnitCosts(q) IN SumSeq(SubSeq(u, 1, Min(s, Len(u))))

\* after is before with lots taken from the front only: some k lots are
\* gone, the lot that is now first may have lost quantity, every later lot is
\* as it was.
FrontConsumed(before, after) ==
    \E k \in 0..Len(before) :
       /\ Len(after) = Len(before) - k
       /\ \A i \in 2..Len(after) : after[i] = before[k + i]
       /\ Len(after) > 0 =>
            /\ after[1].price_per_share_eur = before[k + 1].price_per_share_eur
            /\ after[1].year = before[k + 1].year
            /\ after[1].quantity > 0
            /\ after[1].quantity <= before[k + 1].quantity

\* The step replays a Sell row.
SellStep == n_events' = n_events + 1 /\ transaction'.Type = "sell"

(***************************************************************************)
(* C1.  At every point of a ticker's replay, and after the handling of an  *)
(* inactive ticker that follows it, total_shares is the sum of the         *)
(* quantities of the lots in buy_queue and total_cost is the sum of        *)
(* quantity x price_per_share_eur over those lots.                         *)
(***************************************************************************)
C1_TotalsMatchQueue ==
    pc \in {"replay", "finished"} =>
        /\ total_shares = SumQuantity(buy_queue)
        /\ total_cost = SumCost(buy_queue)

(***************************************************************************)
(* C2.  While a ticker has replayed only Buy and Sell rows and no Sell     *)
(* exceeded the quantity held, the quantities of the lots in the queue     *)
(* add up to the quantity bought minus the quantity sold (both converted), *)
(* and so does total_shares.                                               *)
(***************************************************************************)
C2_Conservation ==
    (pc = "replay" /\ kinds \subseteq {"buy", "sell"} /\ ~oversold) =>
        /\ SumQuantity(buy_queue) = bought - sold
        /\ total_shares = bought - sold

\* A ticker bought under a merged ticker (ratio 2) and under its own, then
\* sold part of a lot.
C2_Witness ==
    /\ pc = "replay"
    /\ kinds = {"buy", "sell"}
    /\ ~oversold
    /\ bought = 4
    /\ sold = 1
    /\ Len(buy_queue) = 2

C4_RealizedGainBooked ==
    [][SellStep =>
         LET tx == transaction'
             gain == tx.PricePerShareEUR * tx.Quantity
                       - FirstUnitsCost(buy_queue,
                                        tx.Quantity * get_conversion_ratio(tx.Ticker))
             booked(here, t, y) == IF here /\ y = tx.Year THEN gain ELSE 0
         IN  /\ \A a \in AssetTypes, y \in Years :
                   Get(summary'[a].realized_gains, y) =
                      Get(summary[a].realized_gains, y)
                         + booked(a = AssetType(ticker), ticker, y)
             /\ \A t \in Tickers, y \in Years :
                   Get(ticker_detail'[t].realized_gains, y) =
                      Get(ticker_detail[t].realized_gains, y)
                         + booked(t = ticker, ticker, y)
             /\ tx.Year \in DOMAIN summary'[AssetType(ticker)].realized_gains
             /\ tx.Year \in DOMAIN ticker_detail'[ticker].realized_gains
             /\ \A a \in AssetTypes :
                   [summary'[a] EXCEPT !.realized_gains = EmptyByYear] =
                      [summary[a] EXCEPT !.realized_gains = EmptyByYear]
             /\ \A t \in Tickers :
                   [ticker_detail'[t] EXCEPT !.realized_gains = EmptyByYear] =
                      [ticker_detail[t] EXCEPT !.realized_gains = EmptyByYear]]_vars

\* A fund lot bought in year 1 was sold in year 2 at a gain, booked in year 2.
C4_Witness ==
    /\ transaction.Type = "sell"
    /\ transaction.Year = 2
    /\ AssetType(ticker) = "etfs"
    /\ locals.total_cost_basis > 0
    /\ locals.realized_gain > 0
    /\ Get(summary["etfs"].realized_gains, 2) = locals.realized_gain
    /\ Get(summary["etfs"].realized_gains, 1) = 0
    /\ Get(ticker_detail[ticker].realized_gains, 2) = locals.realized_gain
    /\ buy_queue # <<>>
    /\ buy_queue[1].year = 1

(***************************************************************************)
(* The tax computations (tax_calculations.py).  Gains, losses and          *)
(* dividends are whole euros; liabilities, credits and taxes are euro      *)
(* cents.                                                                  *)
(***************************************************************************)
CgtExemption == 1270

CgtRatePercent == 33

ExitTaxRatePercent == 41

IrishDwtPercent == 25

ForeignWithholdingPercent == 15

Max(a, b) == IF a >= b THEN a ELSE b

\* Variant: the exemption is deducted in full from every gain, also from one
\* smaller than the exemption.
apply_cgt_full_exemption(stock_realized, losses, cgt_exemption) ==
    LET after_exemption == IF stock_realized > 0
                           THEN stock_realized - cgt_exemption
                           ELSE stock_realized
        relieve == after_exemption > 0 /\ losses > 0
        carry_forward_used == IF relieve THEN Min(after_exemption, losses) ELSE 0
        losses_left == losses - carry_forward_used
        after_relief == after_exemption - carry_forward_used
        taxable_gains == Max(0, after_relief)
    IN  [taxable_gains |-> taxable_gains,
         cgt_liability |-> taxable_gains * CgtRatePercent,
         carry_forward_used |-> carry_forward_used,
         accumulated_losses |-> IF after_relief < 0
                                THEN losses_left + Abs(after_relief)
                                ELSE losses_left]

\* Variant: the losses used against a gain stay in the accumulator.
apply_cgt_losses_not_consumed(stock_realized, losses, cgt_exemption) ==
    LET after_exemption == IF stock_realized > 0
                           THEN stock_realized - Min(stock_realized, cgt_exemption)
                           ELSE stock_realized
        relieve == after_exemption > 0 /\ losses > 0
        carry_forward_used == IF relieve THEN Min(after_exemption, losses) ELSE 0
        after_relief == after_exemption - carry_forward_used
        taxable_gains == Max(0, after_relief)
    IN  [taxable_gains |-> taxable_gains,
         cgt_liability |-> taxable_gains * CgtRatePercent,
         carry_forward_used |-> carry_forward_used,
         accumulated_losses |-> IF after_relief < 0
                                THEN losses + Abs(after_relief)
                                ELSE losses]

apply_cgt_with_loss_carry_forward(stock_realized, losses, cgt_exemption) ==
    LET after_exemption == IF stock_realized > 0
                           THEN stock_realized - Min(stock_realized, cgt_exemption)
                           ELSE stock_realized
        relieve == after_exemption > 0 /\ losses > 0
        carry_forward_used == IF relieve THEN Min(after_exemption, losses) ELSE 0
        losses_left == losses - carry_forward_used
        after_relief == after_exemption - carry_forward_used
        taxable_gains == Max(0, after_relief)
    IN  [taxable_gains |-> taxable_gains,
         cgt_liability |-> taxable_gains * CgtRatePercent,
         carry_forward_used |-> carry_forward_used,
         accumulated_losses |-> IF after_relief < 0
                                THEN losses_left + Abs(after_relief)
                                ELSE losses_left]

\* Variant: the annual exemption of the stock computation is deducted.
calculate_etf_exit_tax_with_exemption(etf_realized, etf_dividends, etf_deemed) ==
    LET total_taxable == etf_realized + etf_dividends + etf_deemed
        after_exemption == IF total_taxable > 0
                           THEN total_taxable - Min(total_taxable, CgtExemption)
                           ELSE total_taxable
    IN  [total_taxable |-> total_taxable,
         exit_tax_liability |-> after_exemption * ExitTaxRatePercent]

calculate_etf_exit_tax(etf_realized, etf_dividends, etf_deemed) ==
    LET total_taxable == etf_realized + etf_dividends + etf_deemed
    IN  [total_taxable |-> total_taxable,
         exit_tax_liability |-> total_taxable * ExitTaxRatePercent]

\* The dict built by both dividend computations.
DividendEntry(dividend_income, margin_rate, irish_dividends, foreign_dividends) ==
    LET irish_dwt_credit == irish_dividends * IrishDwtPercent
        foreign_withholding_credit == foreign_dividends * ForeignWithholdingPercent
        total_credits == irish_dwt_credit + foreign_withholding_credit
        income_tax_due == dividend_income * margin_rate
    IN  [gross_dividend_income |-> dividend_income,
         irish_dividends |-> irish_dividends,
         foreign_dividends |-> foreign_dividends,
         irish_dwt_credit |-> irish_dwt_credit,
         foreign_withholding_credit |-> foreign_withholding_credit,
         total_credits |-> total_credits,
         income_tax_due |-> income_tax_due,
         net_tax_due |-> Max(0, income_tax_due - total_credits),
         refund_due |-> Max(0, total_credits - income_tax_due),
         margin_rate |-> margin_rate]

NoEntry == [gross_dividend_income |-> 0]

\* tax_calculations.calculate_dividend_income_tax: None unless income > 0.
calculate_dividend_income_tax(dividend_income, margin_rate, irish_dividends, foreign_dividends) ==
    IF dividend_income <= 0
    THEN NoEntry
    ELSE DividendEntry(dividend_income, margin_rate, irish_dividends,
                       foreign_dividends)

(***************************************************************************)
(* calculate_dividend_taxes (lines 574-628): one entry for every year,     *)
(* among the years with a dividend of any asset class, whose stock         *)
(* dividends are positive.  The stock sub-totals of every such year are    *)
(* read, which makes the year a key of both.                               *)
(***************************************************************************)
DividendYears(s) ==
    UNION {DOMAIN s[a].dividends : a \in AssetTypes}

\* Variant: the dividends of the funds are added to the income.
AllDividendIncome(s, year) ==
    Get(s["stocks"].dividends_irish, year) + Get(s["stocks"].dividends_foreign, year)
       + Get(s["etfs"].dividends, year)

\* total_dividends of a year: the two stock sub-totals (lines 584-593).
StockDividendIncome(s, year) ==
    Get(s["stocks"].dividends_irish, year) + Get(s["stocks"].dividends_foreign, year)

calculate_dividend_taxes(s, margin_rate) ==
    [year \in {y \in DividendYears(s) : StockDividendIncome(s, y) > 0} |->
        DividendEntry(StockDividendIncome(s, year), margin_rate,
                      Get(s["stocks"].dividends_irish, year),
                      Get(s["stocks"].dividends_foreign, year))]

RECURSIVE TouchAll(_, _)
TouchAll(d, years) ==
    IF years = {} THEN d
    ELSE LET y == CHOOSE y \in years : TRUE
         IN  TouchAll(Touch(d, y), years \ {y})

DividendTaxesRead(s) ==
    [s EXCEPT !["stocks"].dividends_irish = TouchAll(@, DividendYears(s)),
              !["stocks"].dividends_foreign = TouchAll(@, DividendYears(s))]

(***************************************************************************)
(* One iteration of the year loop of generate_report (lines 651-673).      *)
(***************************************************************************)
\* all_years (lines 636-639).
ReportYears(s) ==
    UNION {DOMAIN s[a].realized_gains \cup DOMAIN s[a].dividends : a \in AssetTypes}

\* Variant: the stock losses carried forward are set against the fund base.
YearFiguresFundRelief(s, year, losses) ==
    LET stock_realized == Get(s["stocks"].realized_gains, year)
        etf_realized == Get(s["etfs"].realized_gains, year)
        etf_dividends == Get(s["etfs"].dividends, year)
        etf_deemed == Get(s["etfs"].deemed_disposal_gains, year)
        cgt == apply_cgt_with_loss_carry_forward(stock_realized, losses, CgtExemption)
        etf == calculate_etf_exit_tax(etf_realized, etf_dividends, etf_deemed)
        fund_relief == IF etf.total_taxable > 0
                       THEN Min(etf.total_taxable, cgt.accumulated_losses) ELSE 0
    IN  [year |-> year,
         stock_realized |-> stock_realized,
         losses_before |-> losses,
         stock_taxable_gains |-> cgt.taxable_gains,
         stock_cgt_liability |-> cgt.cgt_liability,
         carry_forward_used |-> cgt.carry_forward_used,
         accumulated_losses |-> cgt.accumulated_losses - fund_relief,
         etf_realized |-> etf_realized,
         etf_dividends |-> etf_dividends,
         etf_deemed |-> etf_deemed,
         etf_total_taxable |-> etf.total_taxable - fund_relief,
         etf_exit_tax_liability |->
             (etf.total_taxable - fund_relief) * ExitTaxRatePercent]

YearFigures(s, year, losses) ==
    LET stock_realized == Get(s["stocks"].realized_gains, year)
        etf_realized == Get(s["etfs"].realized_gains, year)
        etf_dividends == Get(s["etfs"].dividends, year)
        etf_deemed == Get(s["etfs"].deemed_disposal_gains, year)
        cgt == apply_cgt_with_loss_carry_forward(stock_realized, losses, CgtExemption)
        etf == calculate_etf_exit_tax(etf_realized, etf_dividends, etf_deemed)
    IN  [year |-> year,
         stock_realized |-> stock_realized,
         losses_before |-> losses,
         stock_taxable_gains |-> cgt.taxable_gains,
         stock_cgt_liability |-> cgt.cgt_liability,
         carry_forward_used |-> cgt.carry_forward_used,
         accumulated_losses |-> cgt.accumulated_losses,
         etf_realized |-> etf_realized,
         etf_dividends |-> etf_dividends,
         etf_deemed |-> etf_deemed,
         etf_total_taxable |-> etf.total_taxable,
         etf_exit_tax_liability |-> etf.exit_tax_liability]

\* The reads of one iteration (lines 655-662).
YearRead(s, year) ==
    [s EXCEPT !["stocks"].realized_gains = Touch(@, year),
              !["stocks"].dividends = Touch(@, year),
              !["stocks"].dividends_irish = Touch(@, year),
              !["stocks"].dividends_foreign = Touch(@, year),
              !["etfs"].realized_gains = Touch(@, year),
              !["etfs"].dividends = Touch(@, year),
              !["etfs"].deemed_disposal_gains = Touch(@, year)]

\* The reads of the ticker breakdown of one iteration (lines 724-728), on the
\* tickers that have a detail.
BreakdownRead(d, year) ==
    [t \in DOMAIN d |->
        IF d[t].asset_type = "" THEN d[t]
        ELSE [d[t] EXCEPT !.realized_gains = Touch(@, year),
                          !.dividends = Touch(@, year),
                          !.dividends_irish = Touch(@, year),
                          !.dividends_foreign = Touch(@, year)]]

\* The marginal rates main() accepts.
MarginRates == {20, 40}

SetMin(S) == CHOOSE x \in S : \A y \in S : x <= y

Range(q) == {q[i] : i \in DOMAIN q}

\* sorted(all_years): the years still to come, the smallest first.
YearsLeft == all_years \ Range(report_log)

ReportStart ==
    /\ rpc = "idle"
    /\ \E margin_rate \in MarginRates :
          dividend_taxes' = calculate_dividend_taxes(summary, margin_rate)
    /\ all_years' = ReportYears(summary)
    /\ summary' = DividendTaxesRead(summary)
    /\ accumulated_losses' = 0
    /\ rpc' = "years"
    /\ UNCHANGED <<report_log, figures, report, losses_total, used_total>>
    /\ UNCHANGED <<pc, ticker, processed, n_events, buy_queue, total_shares,
                   total_cost, transaction, locals, ticker_detail, bought, sold,
                   oversold, kinds>>
    /\ UNCHANGED <<prepVars, rerunVars, exportVars>>

ReportYear ==
    /\ rpc = "years"
    /\ YearsLeft # {}
    /\ LET year == SetMin(YearsLeft)
           out == YearFigures(summary, year, accumulated_losses)
       IN  /\ figures' = out
           /\ report' = Append(report, out)
           /\ accumulated_losses' = out.accumulated_losses
           /\ summary' = YearRead(summary, year)
           /\ ticker_detail' = BreakdownRead(ticker_detail, year)
           /\ report_log' = Append(report_log, year)
           /\ losses_total' = losses_total
                                + (IF out.stock_realized < 0 THEN -out.stock_realized ELSE 0)
           /\ used_total' = used_total + out.carry_forward_used
    /\ UNCHANGED <<rpc, all_years, dividend_taxes>>
    /\ UNCHANGED <<pc, ticker, processed, n_events, buy_queue, total_shares,
                   total_cost, transaction, locals, bought, sold, oversold, kinds>>
    /\ UNCHANGED <<prepVars, rerunVars, exportVars>>

ReportEnd ==
    /\ rpc = "years"
    /\ YearsLeft = {}
    /\ rpc' = "done"
    /\ UNCHANGED <<all_years, report_log, accumulated_losses, dividend_taxes,
                   figures, report, losses_total, used_total>>
    /\ UNCHANGED <<replayVars, prepVars, rerunVars, exportVars>>

(***************************************************************************)
(* The results a report is run on: per year, the stock realized gain, the  *)
(* stock dividends (Irish, foreign) and the fund figures (realized gain,   *)
(* dividends, deemed-disposal gain), each possibly not a key.  dividends   *)
(* is the sum of its two sub-totals, as process_transactions leaves it,    *)
(* and deemed-disposal gains are booked under the current year only.       *)
(***************************************************************************)
\* A figure of a year: <<>> when the year is no key, <<v>> when it holds v.
Absent == <<>>

StockGainOptions == {Absent, <<-500>>, <<0>>, <<1000>>, <<1500>>, <<2000>>}

StockDividendOptions ==
    {<<Absent, Absent>>, <<<<1000>>, Absent>>, <<<<100>>, <<200>>>>}

FundOptions(y) ==
    {<<Absent, Absent, Absent>>, <<<<100>>, Absent, Absent>>,
     <<<<-100>>, <<50>>, Absent>>}
      \cup (IF y = CurrentYear THEN {<<Absent, Absent, <<20>>>>} ELSE {})

\* The dict of the i-th figure of the tuples of f: the years that hold one.
Column(f, i) == [y \in {k \in DOMAIN f : f[k][i] # Absent} |-> f[y][i][1]]

ResultsOf(gains, dividends, fund) ==
    LET irish == Column(dividends, 1)
        foreign == Column(dividends, 2)
    IN
    [a \in AssetTypes |->
        IF a = "stocks"
        THEN [realized_gains |-> Column([y \in Years |-> <<gains[y]>>], 1),
              dividends |-> [y \in DOMAIN irish \cup DOMAIN foreign |->
                                Get(irish, y) + Get(foreign, y)],
              dividends_irish |-> irish,
              dividends_foreign |-> foreign]
        ELSE [realized_gains |-> Column(fund, 1),
              dividends |-> Column(fund, 2),
              dividends_irish |-> Column(fund, 2),
              dividends_foreign |-> EmptyByYear,
              deemed_disposal_gains |-> Column(fund, 3)]]

ReportInit ==
    /\ pc = "returned"
    /\ ticker = NoTicker
    /\ processed = {}
    /\ n_events = 0
    /\ buy_queue = <<>>
    /\ total_shares = 0
    /\ total_cost = 0
    /\ transaction = NoTransaction
    /\ locals = NoLocals
    /\ ticker_detail = InitTickerDetail
    /\ bought = 0
    /\ sold = 0
    /\ oversold = FALSE
    /\ kinds = {}
    /\ \E gains \in [Years -> StockGainOptions],
          dividends \in [Years -> StockDividendOptions],
          fund \in [Years -> UNION {FundOptions(y) : y \in Years}] :
          /\ \A y \in Years : fund[y] \in FundOptions(y)
          /\ summary = ResultsOf(gains, dividends, fund)
    /\ ReportIdle
    /\ PrepIdle
    /\ RerunIdle
    /\ ExportIdle

ReportNext ==
    \/ ReportStart
    \/ ReportYear
    \/ ReportEnd

ReportSpec == ReportInit /\ [][ReportNext]_vars

(***************************************************************************)
(* export_to_csv (lines 801-924), run on the results before or after       *)
(* generate_report: main() calls it after the report, or after the detail  *)
(* report of one ticker when no report is generated.  The amounts of the   *)
(* model are whole and the liabilities whole hundredths, which             *)
(* round(x, 2) returns as they are.                                        *)
(***************************************************************************)
\* all_years (lines 804-809).
ExportYears(s) ==
    UNION {DOMAIN s[a].realized_gains \cup DOMAIN s[a].dividends : a \in AssetTypes}
       \cup DOMAIN s["etfs"].deemed_disposal_gains

\* The stock computation written out in the loop (lines 822-834).
ExportStockFigures(stock_realized, losses, cgt_exemption) ==
    LET after_exemption == IF stock_realized > 0
                           THEN stock_realized - Min(stock_realized, cgt_exemption)
                           ELSE stock_realized
        relieve == after_exemption > 0 /\ losses > 0
        carry_forward_used == IF relieve THEN Min(after_exemption, losses) ELSE 0
        losses_1 == IF relieve THEN losses - carry_forward_used ELSE losses
        after_exemption_1 == IF relieve
                             THEN after_exemption - carry_forward_used
                             ELSE after_exemption
        stock_taxable == Max(0, after_exemption_1)
    IN  [stock_taxable |-> stock_taxable,
         stock_cgt_liability |-> stock_taxable * CgtRatePercent,
         carry_forward_used |-> carry_forward_used,
         accumulated_losses |-> IF after_exemption_1 < 0
                                THEN losses_1 + Abs(after_exemption_1)
                                ELSE losses_1]

\* The two rows of a year (lines 843-868).
ExportRowsOfYear(s, year, losses) ==
    LET stock_realized == Get(s["stocks"].realized_gains, year)
        cgt == ExportStockFigures(stock_realized, losses, CgtExemption)
        etf_realized == Get(s["etfs"].realized_gains, year)
        etf_dividends == Get(s["etfs"].dividends, year)
        etf_deemed == Get(s["etfs"].deemed_disposal_gains, year)
        etf_total_taxable == etf_realized + etf_dividends + etf_deemed
    IN  <<[Year |-> year, Asset_Type |-> "Stocks",
           Realized_Gains_Gross_EUR |-> stock_realized,
           CGT_Exemption_Applied_EUR |->
               IF stock_realized > 0 THEN Min(stock_realized, CgtExemption) ELSE 0,
           Carry_Forward_Loss_Used_EUR |-> cgt.carry_forward_used,
           Taxable_Gains_Net_EUR |-> cgt.stock_taxable,
           Tax_Liability_EUR |-> cgt.stock_cgt_liability,
           Losses_Carried_Forward_EUR |-> cgt.accumulated_losses,
           Dividends_Irish_EUR |-> Get(s["stocks"].dividends_irish, year),
           Dividends_Foreign_EUR |-> Get(s["stocks"].dividends_foreign, year),
           Total_Dividends_EUR |-> Get(s["stocks"].dividends, year)],
          [Year |-> year, Asset_Type |-> "ETFs",
           Realized_Gains_EUR |-> etf_realized,
           Dividends_EUR |-> etf_dividends,
           Deemed_Disposal_Gains_EUR |-> etf_deemed,
           Total_Taxable_EUR |-> etf_total_taxable,
           Exit_Tax_Liability_EUR |-> etf_total_taxable * ExitTaxRatePercent]>>

\* for year in sorted(all_years) (lines 814-868), from the losses carried
\* into the first of the years.
RECURSIVE ExportLoop(_, _, _)
ExportLoop(s, years, losses) ==
    IF years = {}
    THEN <<>>
    ELSE LET year == SetMin(years)
             rows == ExportRowsOfYear(s, year, losses)
         IN  rows \o ExportLoop(s, years \ {year}, rows[1].Losses_Carried_Forward_EUR)

\* The reads of the loop (lines 816-839) on the sub-totals of every year.
RECURSIVE ExportRead(_, _)
ExportRead(s, years) ==
    IF years = {}
    THEN s
    ELSE LET year == SetMin(years)
         IN  ExportRead(YearRead(s, year), years \ {year})

\* The reads of the ticker rows (lines 877-888): realized_gains and
\* dividends of every year that is a key of one of the four dicts.
ExportTickerRead(d) ==
    [t \in DOMAIN d |->
        LET all_ticker_years == DOMAIN d[t].realized_gains \cup DOMAIN d[t].dividends
                                  \cup DOMAIN d[t].dividends_irish
                                  \cup DOMAIN d[t].dividends_foreign
        IN  [d[t] EXCEPT !.realized_gains = TouchAll(@, all_ticker_years),
                         !.dividends = TouchAll(@, all_ticker_years)]]

ExportToCsv ==
    /\ epc = "idle"
    /\ rpc \in {"idle", "done"}
    /\ pc = "returned"
    /\ summary_rows' = ExportLoop(summary, ExportYears(summary), 0)
    /\ summary' = ExportRead(summary, ExportYears(summary))
    /\ ticker_detail' = ExportTickerRead(ticker_detail)
    /\ epc' = "done"
    /\ UNCHANGED <<pc, ticker, processed, n_events, buy_queue, total_shares,
                   total_cost, transaction, locals, bought, sold, oversold, kinds>>
    /\ UNCHANGED <<reportVars, prepVars, rerunVars>>

ExportNext ==
    \/ ReportStart
    \/ ReportYear
    \/ ReportEnd
    \/ ExportToCsv

ExportSpec == ReportInit /\ [][ExportNext]_vars

(***************************************************************************)
(* The first part of process_transactions (lines 257-316): the kind of     *)
(* every row is told from its Type, broker transfers are reclassified,     *)
(* tickers are resolved, amounts are converted to EUR, and the rows of the *)
(* kinds that are replayed are kept.  Every step is done for all rows.     *)
(* The amount columns are taken as parsed (parse_amount, lines 201-225).   *)
(***************************************************************************)
MaxRows == 2

(***************************************************************************)
(* Strings are sequences of characters, so that upper-casing and the       *)
(* substring test of the classification are computed, not assumed.         *)
(***************************************************************************)
LowerCase ==
    <<"a", "b", "c", "d", "e", "f", "g", "h", "i", "j", "k", "l", "m", "n",
      "o", "p", "q", "r", "s", "t", "u", "v", "w", "x", "y", "z">>

UpperCase ==
    <<"A", "B", "C", "D", "E", "F", "G", "H", "I", "J", "K", "L", "M", "N",
      "O", "P", "Q", "R", "S", "T", "U", "V", "W", "X", "Y", "Z">>

\* str.upper(), on the letters a to z
UpperChar(c) ==
    IF \E i \in DOMAIN LowerCase : LowerCase[i] = c
    THEN UpperCase[CHOOSE i \in DOMAIN LowerCase : LowerCase[i] = c]
    ELSE c

Upper(str) == [i \in DOMAIN str |-> UpperChar(str[i])]

\* keyword in str
Contains(str, keyword) ==
    \E i \in 1..(Len(str) - Len(keyword) + 1) :
        SubSeq(str, i, i + Len(keyword) - 1) = keyword

\* The keywords of classify_transaction_type (lines 177-192).
KW_BUY == <<"B", "U", "Y">>

KW_SELL == <<"S", "E", "L", "L">>

KW_DIVIDEND == <<"D", "I", "V", "I", "D", "E", "N", "D">>

KW_MERGER == <<"M", "E", "R", "G", "E", "R">>

KW_STOCK == <<"S", "T", "O", "C", "K">>

KW_CASH == <<"C", "A", "S", "H">>

KW_TRANSFER == <<"T", "R", "A", "N", "S", "F", "E", "R">>

KW_BROKERS ==
    <<"R", "E", "V", "O", "L", "U", "T", " ", "T", "R", "A", "D", "I", "N",
      "G", " ", "L", "T", "D", " ", "T", "O", " ", "R", "E", "V", "O", "L",
      "U", "T", " ", "S", "E", "C", "U", "R", "I", "T", "I", "E", "S", " ",
      "E", "U", "R", "O", "P", "E", " ", "U", "A", "B">>

\* Values of the Type column.
Type_BuyMarket ==
    <<"B", "U", "Y", " ", "-", " ", "M", "A", "R", "K", "E", "T">>

Type_BuyLower ==
    <<"B", "u", "y", " ", "-", " ", "l", "i", "m", "i", "t">>

Type_SellMarket ==
    <<"S", "E", "L", "L", " ", "-", " ", "M", "A", "R", "K", "E", "T">>

Type_DividendRow ==
    <<"D", "I", "V", "I", "D", "E", "N", "D">>

Type_MergerStock ==
    <<"M", "E", "R", "G", "E", "R", " ", "-", " ", "S", "T", "O", "C", "K">>

Type_MergerCashRow ==
    <<"M", "E", "R", "G", "E", "R", " ", "-", " ", "C", "A", "S", "H">>

Type_MergerPlain ==
    <<"M", "E", "R", "G", "E", "R">>

Type_StockSplit ==
    <<"S", "T", "O", "C", "K", " ", "S", "P", "L", "I", "T">>

Type_CashTopUp ==
    <<"C", "A", "S", "H", " ", "T", "O", "P", "-", "U", "P">>

Type_BrokerTransfer ==
    <<"T", "R", "A", "N", "S", "F", "E", "R", " ", "F", "R", "O", "M", " ",
      "R", "E", "V", "O", "L", "U", "T", " ", "T", "R", "A", "D", "I", "N",
      "G", " ", "L", "T", "D", " ", "T", "O", " ", "R", "E", "V", "O", "L",
      "U", "T", " ", "S", "E", "C", "U", "R", "I", "T", "I", "E", "S", " ",
      "E", "U", "R", "O", "P", "E", " ", "U", "A", "B">>

Type_OtherTransfer ==
    <<"T", "R", "A", "N", "S", "F", "E", "R">>

Type_BrokersOnly ==
    <<"R", "E", "V", "O", "L", "U", "T", " ", "T", "R", "A", "D", "I", "N",
      "G", " ", "L", "T", "D", " ", "T", "O", " ", "R", "E", "V", "O", "L",
      "U", "T", " ", "S", "E", "C", "U", "R", "I", "T", "I", "E", "S", " ",
      "E", "U", "R", "O", "P", "E", " ", "U", "A", "B">>

Type_SellBuyback ==
    <<"S", "E", "L", "L", " ", "-", " ", "B", "U", "Y", "B", "A", "C", "K">>

Type_DividendMergerCash ==
    <<"D", "I", "V", "I", "D", "E", "N", "D", " ", "-", " ", "M", "E", "R",
      "G", "E", "R", " ", "C", "A", "S", "H">>

Type_MergerCashForStock ==
    <<"M", "E", "R", "G", "E", "R", " ", "-", " ", "C", "A", "S", "H", " ",
      "F", "O", "R", " ", "S", "T", "O", "C", "K">>

Type_TransferSellOrder ==
    <<"T", "R", "A", "N", "S", "F", "E", "R", " ", "-", " ", "S", "E", "L",
      "L", " ", "O", "R", "D", "E", "R">>

Type_Empty ==
    <<>>

TypeStrings ==
    {Type_BuyMarket, Type_BuyLower, Type_SellMarket, Type_DividendRow,
     Type_MergerStock, Type_MergerCashRow, Type_MergerPlain,
     Type_StockSplit, Type_CashTopUp, Type_BrokerTransfer,
     Type_OtherTransfer, Type_BrokersOnly, Type_SellBuyback,
     Type_DividendMergerCash, Type_MergerCashForStock,
     Type_TransferSellOrder, Type_Empty}

\* Variant: SELL is looked for before BUY.
classify_transaction_type_sell_first(type_str) ==
    IF type_str = Absent
    THEN "ignore"
    ELSE LET str == Upper(type_str[1]) IN
         IF Contains(str, KW_SELL) THEN "sell"
         ELSE IF Contains(str, KW_BUY) THEN "buy"
         ELSE IF Contains(str, KW_DIVIDEND) THEN "dividend"
         ELSE IF Contains(str, KW_MERGER)
              THEN IF Contains(str, KW_STOCK) THEN "merger_stock"
                   ELSE IF Contains(str, KW_CASH) THEN "merger_cash"
                   ELSE "merger"
         ELSE IF Contains(str, KW_TRANSFER) /\ Contains(str, KW_BROKERS)
              THEN "transfer_broker"
         ELSE "ignore"

\* classify_transaction_type (lines 170-199); type_str is Absent for NaN and
\* <<str>> for the string str.
classify_transaction_type(type_str) ==
    IF type_str = Absent
    THEN "ignore"
    ELSE LET str == Upper(type_str[1]) IN
         IF Contains(str, KW_BUY) THEN "buy"
         ELSE IF Contains(str, KW_SELL) THEN "sell"
         ELSE IF Contains(str, KW_DIVIDEND) THEN "dividend"
         ELSE IF Contains(str, KW_MERGER)
              THEN IF Contains(str, KW_STOCK) THEN "merger_stock"
                   ELSE IF Contains(str, KW_CASH) THEN "merger_cash"
                   ELSE "merger"
         ELSE IF Contains(str, KW_TRANSFER) /\ Contains(str, KW_BROKERS)
              THEN "transfer_broker"
         ELSE "ignore"

\* convert_to_eur (lines 227-234); fx_rate is Absent for NaN and <<rate>>
\* for a number.  The result is a value, or the ValueError raised.
convert_to_eur(amount, currency, fx_rate) ==
    IF currency = "EUR"
    THEN [raised |-> FALSE, value |-> amount]
    ELSE IF currency = "USD" /\ fx_rate # Absent /\ fx_rate[1] > 0
    THEN [raised |-> FALSE, value |-> amount \div fx_rate[1]]
    ELSE [raised |-> TRUE, value |-> 0]

\* The kinds that are replayed (lines 283, 312).
RelevantTypes ==
    {"buy", "sell", "dividend", "merger_stock", "merger_cash", "merger",
     "transfer_merger"}

\* Variant: only the mergers paid in stock mark a ticker.
MergerTypesStockOnly == {"merger_stock"}

MergerTypes == {"merger_stock", "merger_cash", "merger"}

\* Amounts are multiples of every FX rate.
RawAmounts == {120}

Currencies == {"EUR", "USD", "GBP"}

FxRates == {Absent, <<-1>>, <<0>>, <<2>>}

\* Tickers that resolve to no ticker: missing, blank, and the strings that
\* upper-case to NONE or NAN.
UnresolvedTickers == {NaNTicker, "", "NONE", "nan"}

RawRow(type, t, currency, fx_rate, amount) ==
    [Type |-> type, Ticker |-> t, Quantity |-> 1, Currency |-> currency,
     FXRate |-> fx_rate, TotalAmountFloat |-> amount,
     PricePerShareFloat |-> amount]

\* The rows a file may hold: every Type in EUR, a bought and an ignored row
\* in every currency with every FX rate, and rows of the kinds that are
\* replayed with a ticker that resolves to none or is in lower case.
RawRows ==
    {RawRow(type, t, "EUR", Absent, amount) :
        type \in {Absent} \cup {<<str>> : str \in TypeStrings},
        t \in {"ACME", "OLDCO"}, amount \in RawAmounts}
    \cup
    {RawRow(<<str>>, "ACME", currency, fx_rate, amount) :
        str \in {Type_BuyMarket, Type_CashTopUp}, currency \in Currencies,
        fx_rate \in FxRates, amount \in RawAmounts}
    \cup
    {RawRow(<<str>>, t, "EUR", Absent, amount) :
        str \in {Type_BuyMarket, Type_DividendRow, Type_MergerStock,
                 Type_BrokerTransfer},
        t \in UnresolvedTickers \cup {"acme"}, amount \in RawAmounts}

\* A row with one more column.
WithColumn(row, column, value) ==
    [c \in DOMAIN row \cup {column} |-> IF c = column THEN value ELSE row[c]]

Rows(frame) == DOMAIN frame

\* df['TransactionType'] = df['Type'].apply(...) (line 260)
Classify ==
    /\ ppc = "given"
    /\ df' = [i \in Rows(df) |->
                WithColumn(df[i], "TransactionType",
                           classify_transaction_type(df[i].Type))]
    /\ ppc' = "classified"
    /\ UNCHANGED relevant_df
    /\ UNCHANGED <<replayVars, reportVars, rerunVars, exportVars>>

\* merger_tickers and classify_transfer (lines 261-278)
ClassifyTransfers ==
    /\ ppc = "classified"
    /\ LET merger_tickers ==
               {normalize_ticker(df[i].Ticker) :
                   i \in {j \in Rows(df) : df[j].TransactionType \in MergerTypes}}
                 \ {NoTicker}
           classify_transfer(row) ==
               IF row.TransactionType = "transfer_broker"
               THEN IF normalize_ticker(row.Ticker) \in merger_tickers
                    THEN "transfer_merger" ELSE "ignore"
               ELSE row.TransactionType
       IN  df' = [i \in Rows(df) |->
                    [df[i] EXCEPT !.TransactionType = classify_transfer(df[i])]]
    /\ ppc' = "transfers"
    /\ UNCHANGED relevant_df
    /\ UNCHANGED <<replayVars, reportVars, rerunVars, exportVars>>

\* NormalizedTicker, IsETF, IsActive (lines 280-287)
NormalizeTickers ==
    /\ ppc = "transfers"
    /\ df' = [i \in Rows(df) |->
                LET x == IF df[i].TransactionType \in RelevantTypes
                         THEN normalize_ticker(df[i].Ticker) ELSE NoTicker
                IN  WithColumn(WithColumn(WithColumn(df[i],
                        "NormalizedTicker", x),
                        "IsETF", IF x # NoTicker THEN is_etf(x) ELSE FALSE),
                        "IsActive", IF x # NoTicker THEN is_active(x) ELSE TRUE)]
    /\ ppc' = "normalized"
    /\ UNCHANGED relevant_df
    /\ UNCHANGED <<replayVars, reportVars, rerunVars, exportVars>>

\* TotalAmountEUR and PricePerShareEUR (lines 288-305): convert_to_eur is
\* applied to every row of df, and its ValueError ends the run.
ConvertAmounts ==
    /\ ppc = "normalized"
    /\ LET total(i) == convert_to_eur(df[i].TotalAmountFloat, df[i].Currency,
                                      df[i].FXRate)
           price(i) == convert_to_eur(df[i].PricePerShareFloat, df[i].Currency,
                                      df[i].FXRate)
       IN  IF \E i \in Rows(df) : total(i).raised \/ price(i).raised
           THEN /\ ppc' = "raised"
                /\ UNCHANGED df
           ELSE /\ ppc' = "converted"
                /\ df' = [i \in Rows(df) |->
                            WithColumn(WithColumn(df[i],
                                "TotalAmountEUR", total(i).value),
                                "PricePerShareEUR", price(i).value)]
    /\ UNCHANGED relevant_df
    /\ UNCHANGED <<replayVars, reportVars, rerunVars, exportVars>>

\* FeesEUR and relevant_df (lines 307-316)
SelectRelevant ==
    /\ ppc = "converted"
    /\ LET fees(row) ==
               IF row.TransactionType \in {"buy", "sell"} /\ row.Quantity > 0
               THEN row.TotalAmountEUR - row.PricePerShareEUR * row.Quantity
               ELSE 0
           relevant(row) ==
               row.TransactionType \in RelevantTypes /\ row.NormalizedTicker # NoTicker
           with_fees == [i \in Rows(df) |-> WithColumn(df[i], "FeesEUR", fees(df[i]))]
       IN  /\ df' = with_fees
           /\ relevant_df' = SelectSeq(with_fees, relevant)
    /\ ppc' = "ready"
    /\ UNCHANGED <<replayVars, reportVars, rerunVars, exportVars>>

\* A call of process_transactions with one to MaxRows rows.
PrepInit ==
    /\ ReplayStart
    /\ ReportIdle
    /\ ppc = "given"
    /\ \E n \in 1..MaxRows : df \in [1..n -> RawRows]
    /\ relevant_df = <<>>
    /\ RerunIdle
    /\ ExportIdle

PrepNext ==
    \/ Classify
    \/ ClassifyTransfers
    \/ NormalizeTickers
    \/ ConvertAmounts
    \/ SelectRelevant

PrepSpec == PrepInit /\ [][PrepNext]_vars

(***************************************************************************)
(* Two runs on the same arguments: process_transactions and                *)
(* generate_report are called on the rows of stream and on margin, and     *)
(* then called again on the same.  A call of process_transactions builds   *)
(* its results anew (lines 321-354) and its loops assign their variables   *)
(* before they read them; what the first run left in the other variables   *)
(* is still there when the second run starts.                              *)
(***************************************************************************)
\* The rows the runs are given: every kind of row, losses and gains of both
\* years, a fund row of eight years ago and a row of an inactive ticker.
RerunRows ==
    {Row("buy", "ACME", 2, 30, 0, FirstDay(1)),
     Row("buy", "OLDCO", 1, 10, 0, FirstDay(1)),
     Row("sell", "ACME", 1, 20, 0, FirstDay(1)),
     Row("sell", "ACME", 1, 20, 0, FirstDay(CurrentYear)),
     Row("dividend", "ACME", 0, 0, 3, FirstDay(CurrentYear)),
     Row("merger_stock", "OLDCO", -1, 0, 0, FirstDay(1)),
     Row("merger_cash", "ACME", 0, 0, 3, FirstDay(CurrentYear)),
     Row("buy", "FUND", 1, 10, 0, FirstDay(1)),
     Row("transfer_merger", "FUND", 1, 10, 0, FirstDay(1)),
     Row("buy", "DEFUNCT", 1, 10, 0, FirstDay(1))}

\* The order of the replay (lines 356-360): the rows of a ticker together,
\* in ascending Date.
InReplayOrder(rows) ==
    LET t(i) == normalize_ticker(rows[i].Ticker) IN
    /\ \A i, j, k \in DOMAIN rows : i < j /\ j < k /\ t(i) = t(k) => t(j) = t(i)
    /\ \A i, j \in DOMAIN rows : i < j /\ t(i) = t(j) => rows[i].Date <= rows[j].Date

\* The columns Currency, FX Rate and TotalAmountEUR of the rows the runs are
\* given: the rows of ACME are recorded in USD at the rate 2, every other
\* row in EUR.
RerunFxRow(row) ==
    IF row.Ticker = "ACME"
    THEN FxRow(row.Type, "USD", <<2>>, row.Quantity * row.PricePerShareEUR)
    ELSE FxRow(row.Type, "EUR", Unset, row.Quantity * row.PricePerShareEUR)

\* ticker_data (line 360) of the rows given, as get_weighted_fx_rate reads it.
RECURSIVE RerunTickerData(_, _)
RerunTickerData(rows, t) ==
    IF rows = <<>>
    THEN <<>>
    ELSE IF normalize_ticker(Head(rows).Ticker) = t
         THEN <<RerunFxRow(Head(rows))>> \o RerunTickerData(Tail(rows), t)
         ELSE RerunTickerData(Tail(rows), t)

RowsLeft == n_events < Len(stream)

NextRow == stream[n_events + 1]

\* Variant: the results are an attribute that a new call goes on filling.
ResultsKept(previous) == previous

\* results = {...} (lines 321-354), whatever an earlier call returned.
NewResults(previous) == [summary |-> InitSummary, ticker_detail |-> InitTickerDetail]

\* What a run returns: the results and the figures of the report.
Returned ==
    [summary |-> summary, ticker_detail |-> ticker_detail,
     dividend_taxes |-> dividend_taxes, report |-> report]

RerunInit ==
    /\ ReplayStart
    /\ ReportIdle
    /\ PrepIdle
    /\ run = 1
    /\ \E n \in 1..MaxEvents : stream \in [1..n -> RerunRows]
    /\ InReplayOrder(stream)
    /\ margin \in MarginRates
    /\ first = <<>>
    /\ ExportIdle

\* The ticker loop goes to the ticker of the next row.
NextTicker ==
    /\ run \in {1, 2}
    /\ RowsLeft
    /\ StartTicker
    /\ ticker' = normalize_ticker(NextRow.Ticker)

\* The row loop replays the next row.
NextTransaction ==
    /\ run \in {1, 2}
    /\ RowsLeft
    /\ Dividend \/ Buy \/ Sell \/ Merger \/ MergerCash \/ TransferMerger
    /\ transaction' = NextRow

\* The row loop ends when the rows of the ticker are through.
TickerDone ==
    /\ run \in {1, 2}
    /\ IF RowsLeft THEN normalize_ticker(NextRow.Ticker) # ticker ELSE TRUE
    /\ FinishTickerOn(RerunTickerData(stream, ticker))

\* generate_report(results, margin_rate) once process_transactions is over.
Report ==
    /\ run \in {1, 2}
    /\ pc = "finished"
    /\ ~RowsLeft
    /\ ReportStart
    /\ dividend_taxes' = calculate_dividend_taxes(summary, margin)

\* The second call of process_transactions, up to the ticker loop: new
\* results, and the loops and the report start over.
CallAgain ==
    /\ run = 1
    /\ rpc = "done"
    /\ first' = Returned
    /\ run' = 2
    /\ LET results == NewResults([summary |-> summary, ticker_detail |-> ticker_detail])
       IN  /\ summary' = results.summary
           /\ ticker_detail' = results.ticker_detail
    /\ pc' = "tickers"
    /\ processed' = {}
    /\ n_events' = 0
    /\ rpc' = "idle"
    /\ report_log' = <<>>
    /\ report' = <<>>
    /\ figures' = NoFigures
    /\ losses_total' = 0
    /\ used_total' = 0
    /\ UNCHANGED <<ticker, buy_queue, total_shares, total_cost, transaction,
                   locals, bought, sold, oversold, kinds>>
    /\ UNCHANGED <<all_years, accumulated_losses, dividend_taxes>>
    /\ UNCHANGED <<stream, margin>>
    /\ UNCHANGED <<prepVars, exportVars>>

RerunNext ==
    \/ NextTicker
    \/ NextTransaction
    \/ TickerDone
    \/ Report
    \/ ReportYear
    \/ ReportEnd
    \/ CallAgain

RerunSpec == RerunInit /\ [][RerunNext]_vars

(***************************************************************************)
(* The order of the replay.  process_transactions is given relevant_df     *)
(* with its rows in any order, as process_file gives the rows of a file;   *)
(* process_multiple_files gives the rows of all files sorted by the Date   *)
(* column as read (line 986), which is one of these orders.  The ticker    *)
(* loop (lines 356-360) takes the tickers in the order of their first row  *)
(* and replays the rows of each sorted by Date.  sort_values is called     *)
(* without kind, so with quicksort, which is not stable: rows of the same  *)
(* Date come in any order.  The call is then repeated on the same rows in  *)
(* another order.                                                          *)
(***************************************************************************)
\* The rows given: two tickers, one of them under two names, rows of three
\* different dates and rows of the same date.
OrderRows ==
    {Row("buy", "ACME", 2, 10, 0, FirstDay(1)),
     Row("sell", "ACME", 1, 20, 0, FirstDay(1)),
     Row("sell", "ACME", 1, 20, 0, FirstDay(CurrentYear)),
     Row("buy", "OLDCO", 1, 30, 0, FirstDay(CurrentYear)),
     Row("buy", "FUND", 1, 10, 0, FirstDay(1)),
     Row("buy", "FUND", 1, 30, 0, FirstDay(1) + 1),
     Row("sell", "FUND", 1, 20, 0, FirstDay(CurrentYear))}

\* The same rows in every order.
Arrangements(rows) ==
    {s \in [1..Len(rows) -> {rows[i] : i \in 1..Len(rows)}] :
        \A i, j \in 1..Len(rows) : i # j => s[i] # s[j]}

\* Variant: the rows are replayed as they come.
AsGiven(rows) == {rows}

\* sort_values('Date') (line 360): ascending Date, rows of equal Date in any
\* order.
sort_values(rows) ==
    {s \in Arrangements(rows) :
        \A i, j \in 1..Len(rows) : i < j => s[i].Date <= s[j].Date}

\* relevant_df[relevant_df['NormalizedTicker'] == ticker] (lines 357-359)
TickerRows(rows, t) ==
    SelectSeq(rows, LAMBDA row : normalize_ticker(row.Ticker) = t)

\* The rows whose ticker the loop has not reached.
Pending(rows, done) ==
    SelectSeq(rows, LAMBDA row : normalize_ticker(row.Ticker) \notin done)

OrderInit ==
    /\ ReplayStart
    /\ ReportIdle
    /\ ppc = "ready"
    /\ df = <<>>
    /\ \E n \in 1..MaxEvents : relevant_df \in [1..n -> OrderRows]
    /\ \A i, j \in 1..Len(relevant_df) : i # j => relevant_df[i] # relevant_df[j]
    /\ run = 1
    /\ stream = <<>>
    /\ margin = 0
    /\ first = <<>>
    /\ ExportIdle

\* The ticker loop goes to the next of unique() and sorts its rows
\* (lines 356-368).
SortTicker ==
    /\ run \in {1, 2}
    /\ ppc = "ready"
    /\ Pending(relevant_df, processed) # <<>>
    /\ StartLoopBody
    /\ LET t == normalize_ticker(Head(Pending(relevant_df, processed)).Ticker)
       IN  /\ ticker' = t
           /\ \E ticker_data \in sort_values(TickerRows(relevant_df, t)) :
                 stream' = stream \o ticker_data
    /\ UNCHANGED <<run, margin, first>>
    /\ UNCHANGED exportVars

\* process_transactions is called again on the same rows in another order.
CallReordered ==
    /\ run = 1
    /\ ppc = "ready"
    /\ pc = "finished"
    /\ Pending(relevant_df, processed) = <<>>
    /\ first' = Returned
    /\ run' = 2
    /\ relevant_df' \in Arrangements(relevant_df)
    /\ stream' = <<>>
    /\ LET results == NewResults([summary |-> summary, ticker_detail |-> ticker_detail])
       IN  /\ summary' = results.summary
           /\ ticker_detail' = results.ticker_detail
    /\ pc' = "tickers"
    /\ processed' = {}
    /\ n_events' = 0
    /\ UNCHANGED <<ticker, buy_queue, total_shares, total_cost, transaction,
                   locals, bought, sold, oversold, kinds>>
    /\ UNCHANGED <<reportVars, ppc, df, margin>>
    /\ UNCHANGED exportVars

OrderNext ==
    \/ SortTicker
    \/ NextTransaction
    \/ TickerDone
    \/ CallReordered

OrderSpec == OrderInit /\ [][OrderNext]_vars

(***************************************************************************)
(* C5.  For the stock gain g of a year and the accumulator L >= 0 the year *)
(* starts with: if g > 0 then after_exemption = g - min(g, 1270),          *)
(* carry_forward_used = min(after_exemption, L), taxable = after_exemption *)
(* - carry_forward_used, liability = 0.33 x taxable and the accumulator    *)
(* becomes L - carry_forward_used; if g <= 0 then taxable, liability and   *)
(* carry_forward_used are 0 and the accumulator becomes L + |g|.  A gain   *)
(* of 1000 with L = 0 is not taxed; a gain of 2000 with L = 500 gives      *)
(* taxable 230, liability 75.90 and accumulator 0.                         *)
(***************************************************************************)
C5_CgtWithCarryForward ==
    figures.year # 0 =>
        LET g == figures.stock_realized
            L == figures.losses_before
            after_exemption == g - Min(g, 1270)
            used == Min(after_exemption, L)
        IN  /\ L >= 0
            /\ g > 0 =>
                 /\ figures.carry_forward_used = used
                 /\ figures.stock_taxable_gains = after_exemption - used
                 /\ figures.stock_cgt_liability = 33 * (after_exemption - used)
                 /\ figures.accumulated_losses = L - used
            /\ g <= 0 =>
                 /\ figures.carry_forward_used = 0
                 /\ figures.stock_taxable_gains = 0
                 /\ figures.stock_cgt_liability = 0
                 /\ figures.accumulated_losses = L + Abs(g)
            /\ (g = 1000 /\ L = 0) =>
                 /\ figures.stock_taxable_gains = 0
                 /\ figures.stock_cgt_liability = 0
            /\ (g = 2000 /\ L = 500) =>
                 /\ figures.stock_taxable_gains = 230
                 /\ figures.stock_cgt_liability = 7590
                 /\ figures.accumulated_losses = 0

\* A loss of 500 in the first year, then a gain of 2000.
C5_Witness ==
    /\ report_log = <<1, 2>>
    /\ Get(summary["stocks"].realized_gains, 1) = -500
    /\ figures.stock_realized = 2000
    /\ figures.losses_before = 500
    /\ figures.stock_taxable_gains = 230
    /\ figures.stock_cgt_liability = 7590
    /\ accumulated_losses = 0

(***************************************************************************)
(* C6.  In a report run the accumulator starts at 0, the years are handled *)
(* once each in strictly ascending order, and after every year the         *)
(* accumulator is not negative and equals the stock losses of the years    *)
(* handled so far minus the carry-forward used so far; a year uses no more *)
(* than the accumulator it starts with.                                    *)
(***************************************************************************)
C6_AccumulatorTracksLosses ==
    rpc \in {"years", "done"} =>
        /\ \A i, j \in DOMAIN report_log : i < j => report_log[i] < report_log[j]
        /\ Range(report_log) \subseteq all_years
        /\ rpc = "done" => Range(report_log) = all_years
        /\ report_log = <<>> => accumulated_losses = 0
        /\ accumulated_losses >= 0
        /\ accumulated_losses = losses_total - used_total
        /\ figures.year # 0 =>
             /\ figures.year = report_log[Len(report_log)]
             /\ figures.carry_forward_used <= figures.losses_before
             /\ figures.accumulated_losses = accumulated_losses

\* A loss of 500, then a gain of 1500: 230 of the loss is used, 270 is left.
C6_Witness ==
    /\ rpc = "done"
    /\ report_log = <<1, 2>>
    /\ losses_total = 500
    /\ used_total = 230
    /\ accumulated_losses = 270

(***************************************************************************)
(* C7.  The accumulator is not applied to fund positions: the fund         *)
(* exit-tax base and liability of a year are the same whatever the         *)
(* accumulator the year starts with, and the accumulator the year leaves   *)
(* is the same whatever the fund realized gains, fund dividends and        *)
(* deemed-disposal gains of the year.                                      *)
(***************************************************************************)
AltLosses == {0, 500, 1000}

AltFundFigures == {-100, 100}

Put(d, y, v) == [k \in DOMAIN d \cup {y} |-> IF k = y THEN v ELSE d[k]]

WithFund(s, y, realized, dividends, deemed) ==
    [s EXCEPT !["etfs"].realized_gains = Put(@, y, realized),
              !["etfs"].dividends = Put(@, y, dividends),
              !["etfs"].deemed_disposal_gains = Put(@, y, deemed)]

C7_AccumulatorNotAppliedToFunds ==
    figures.year # 0 =>
        /\ \A L \in AltLosses :
              LET alt == YearFigures(summary, figures.year, L)
              IN  /\ alt.etf_total_taxable = figures.etf_total_taxable
                  /\ alt.etf_exit_tax_liability = figures.etf_exit_tax_liability
        /\ \A realized, dividends, deemed \in AltFundFigures :
              YearFigures(WithFund(summary, figures.year, realized, dividends, deemed),
                          figures.year, figures.losses_before).accumulated_losses
                 = accumulated_losses

\* A year that starts with unrelieved losses, has a taxable stock gain and a
\* fund gain.
C7_Witness ==
    /\ figures.year # 0
    /\ figures.losses_before = 500
    /\ figures.carry_forward_used > 0
    /\ figures.etf_total_taxable = 100
    /\ figures.etf_exit_tax_liability = 4100

(***************************************************************************)
(* C8.  The fund exit-tax base of a year is fund realized gains + fund     *)
(* dividends + fund deemed-disposal gains of that year, and the liability  *)
(* is 0.41 x the base, nothing deducted: a fund gain of 100 alone gives    *)
(* 41.00.                                                                  *)
(***************************************************************************)
C8_ExitTaxBase ==
    figures.year # 0 =>
        LET base == Get(summary["etfs"].realized_gains, figures.year)
                      + Get(summary["etfs"].dividends, figures.year)
                      + Get(summary["etfs"].deemed_disposal_gains, figures.year)
        IN  /\ figures.etf_total_taxable = base
            /\ figures.etf_exit_tax_liability = 41 * base
            /\ (figures.etf_realized = 100 /\ figures.etf_dividends = 0
                  /\ figures.etf_deemed = 0) => figures.etf_exit_tax_liability = 4100

C8_Witness ==
    /\ figures.year # 0
    /\ figures.etf_realized = 100
    /\ figures.etf_dividends = 0
    /\ figures.etf_deemed = 0
    /\ figures.etf_exit_tax_liability = 4100

(***************************************************************************)
(* C9.  Fund exit tax gives no loss relief: a negative fund realized gain  *)
(* of a year does not reduce the exit tax on that year's fund dividends    *)
(* and deemed-disposal gains, and the liability of a year is never         *)
(* negative.                                                               *)
(***************************************************************************)
C9_NoFundLossRelief ==
    figures.year # 0 =>
        /\ figures.etf_exit_tax_liability >= 0
        /\ figures.etf_realized < 0 =>
              figures.etf_exit_tax_liability
                 >= 41 * (figures.etf_dividends + figures.etf_deemed)

(***************************************************************************)
(* C10.  For every year whose stock dividends are positive the dividend    *)
(* income tax is computed from the stock dividends only: credit = 0.25 x   *)
(* Irish + 0.15 x foreign, tax = gross x marginal rate / 100, net due =    *)
(* max(0, tax - credit), refund = max(0, credit - tax); net due and refund *)
(* are never negative and never both positive.  1000 Irish at 40% gives    *)
(* tax 400, credit 250, net due 150 and refund 0.                          *)
(***************************************************************************)
C10_DividendIncomeTax ==
    rpc # "idle" =>
        \A y \in Years :
           LET irish == Get(summary["stocks"].dividends_irish, y)
               foreign == Get(summary["stocks"].dividends_foreign, y)
               gross == irish + foreign
           IN  gross > 0 =>
                 /\ y \in DOMAIN dividend_taxes
                 /\ LET e == dividend_taxes[y]
                        credit == 25 * irish + 15 * foreign
                        tax == gross * e.margin_rate
                    IN  /\ e.margin_rate \in MarginRates
                        /\ e.gross_dividend_income = gross
                        /\ e.total_credits = credit
                        /\ e.income_tax_due = tax
                        /\ e.net_tax_due = Max(0, tax - credit)
                        /\ e.refund_due = Max(0, credit - tax)
                        /\ e.net_tax_due >= 0
                        /\ e.refund_due >= 0
                        /\ ~(e.net_tax_due > 0 /\ e.refund_due > 0)
                        /\ e = calculate_dividend_income_tax(gross, e.margin_rate,
                                                             irish, foreign)
                        /\ (irish = 1000 /\ foreign = 0 /\ e.margin_rate = 40) =>
                              /\ e.income_tax_due = 40000
                              /\ e.total_credits = 25000
                              /\ e.net_tax_due = 15000
                              /\ e.refund_due = 0

\* 1000 of Irish stock dividends at 40% in a year that also has fund
\* dividends.
C10_Witness ==
    /\ rpc # "idle"
    /\ 1 \in DOMAIN dividend_taxes
    /\ dividend_taxes[1].margin_rate = 40
    /\ dividend_taxes[1].irish_dividends = 1000
    /\ dividend_taxes[1].foreign_dividends = 0
    /\ dividend_taxes[1].net_tax_due = 15000
    /\ Get(summary["etfs"].dividends, 1) = 50

(***************************************************************************)
(* Steps of the replay, told by the row they leave in transaction.         *)
(***************************************************************************)
RowStep(types) == n_events' = n_events + 1 /\ transaction'.Type \in types

MergerStep == RowStep({"merger_stock", "merger"})

\* realized_gains is the same for every asset class, ticker and year.
RealizedGainsUnchanged ==
    /\ \A a \in AssetTypes, y \in Years :
          Get(summary'[a].realized_gains, y) = Get(summary[a].realized_gains, y)
    /\ \A t \in Tickers, y \in Years :
          Get(ticker_detail'[t].realized_gains, y) = Get(ticker_detail[t].realized_gains, y)

LedgerUnchanged == UNCHANGED <<buy_queue, total_shares, total_cost>>

(***************************************************************************)
(* C13.  A Sell, or a merger row of negative quantity, for more shares     *)
(* than the lots of the queue hold ends with the replay going on as after  *)
(* any other row: the queue is empty, total_shares is 0, the cost taken    *)
(* off is exactly the cost of the lots there were, and the gain a Sell     *)
(* books is its full proceeds minus that cost.                             *)
(***************************************************************************)
C13_SilentOversell ==
    [][/\ (/\ SellStep
           /\ transaction'.Quantity * ticker_cache[transaction'.Ticker].conversion_ratio
                 > SumQuantity(buy_queue))
          => LET lots_cost == SumCost(buy_queue)
                 gain == transaction'.PricePerShareEUR * transaction'.Quantity - lots_cost
                 a == AssetType(ticker)
                 y == transaction'.Year
             IN  /\ pc' = "replay"
                 /\ buy_queue' = <<>>
                 /\ total_shares' = 0
                 /\ total_cost' = total_cost - lots_cost
                 /\ locals'.total_cost_basis = lots_cost
                 /\ locals'.realized_gain = gain
                 /\ Get(summary'[a].realized_gains, y)
                       = Get(summary[a].realized_gains, y) + gain
                 /\ Get(ticker_detail'[ticker].realized_gains, y)
                       = Get(ticker_detail[ticker].realized_gains, y) + gain
       /\ (/\ MergerStep
           /\ transaction'.Quantity < 0
           /\ -transaction'.Quantity > SumQuantity(buy_queue))
          => /\ pc' = "replay"
             /\ buy_queue' = <<>>
             /\ total_shares' = 0
             /\ total_cost' = total_cost - SumCost(buy_queue)
             /\ RealizedGainsUnchanged
      ]_vars

\* One share bought, then two sold: the Sell took the one lot there was.
C13_Witness ==
    /\ pc = "replay"
    /\ transaction.Type = "sell"
    /\ bought = 1
    /\ sold = 2
    /\ locals.converted_quantity = 2
    /\ locals.total_cost_basis > 0
    /\ locals.realized_gain = transaction.PricePerShareEUR * 2 - locals.total_cost_basis
    /\ buy_queue = <<>>
    /\ total_shares = 0

(***************************************************************************)
(* C14.  A merger_stock or merger row of negative quantity q leaves the    *)
(* queue and the two running totals as a Sell row of quantity |q| with the *)
(* same ticker would leave them, and books no realized gain; a row of      *)
(* quantity zero or more changes nothing.                                  *)
(***************************************************************************)
C14_MergerRemovalAsSell ==
    [][MergerStep =>
         IF transaction'.Quantity < 0
         THEN LET conversion_ratio == get_conversion_ratio(transaction'.Ticker)
                  as_sell == SellLoop(buy_queue,
                                ConvertedQuantity(-transaction'.Quantity, conversion_ratio))
              IN  /\ buy_queue' = as_sell.queue
                  /\ total_shares' = total_shares - as_sell.shares
                  /\ total_cost' = total_cost - as_sell.total_cost_basis
                  /\ RealizedGainsUnchanged
         ELSE /\ LedgerUnchanged
              /\ UNCHANGED <<summary, ticker_detail>>
      ]_vars

(***************************************************************************)
(* The dividend figures of the asset class and of the ticker of the row    *)
(* just replayed: field grows by amount under the row's year, in the       *)
(* summary and in the ticker detail.                                       *)
(***************************************************************************)
DividendFieldGrows(field, amount) ==
    LET a == AssetType(ticker)
        y == transaction'.Year
    IN  /\ Get(summary'[a][field], y) = Get(summary[a][field], y) + amount
        /\ Get(ticker_detail'[ticker][field], y)
              = Get(ticker_detail[ticker][field], y) + amount

\* Nothing else of the dividend figures moves: no other year, asset class or
\* ticker.
DividendFiguresElsewhereUnchanged ==
    LET fields == {"dividends", "dividends_irish", "dividends_foreign"} IN
    /\ \A a \in AssetTypes, y \in Years, f \in fields :
          (a # AssetType(ticker) \/ y # transaction'.Year)
             => Get(summary'[a][f], y) = Get(summary[a][f], y)
    /\ \A t \in Tickers, y \in Years, f \in fields :
          (t # ticker \/ y # transaction'.Year)
             => Get(ticker_detail'[t][f], y) = Get(ticker_detail[t][f], y)

MergerCashStep == RowStep({"merger_cash"})

(***************************************************************************)
(* C15, as stated.  Every merger_cash row adds its EUR amount to dividends *)
(* and to dividends_foreign of its year and asset class, whatever the      *)
(* domicile, and leaves the queue, the running totals and realized_gains   *)
(* alone.                                                                  *)
(***************************************************************************)
C15_MergerCashAdds ==
    [][MergerCashStep =>
         /\ DividendFieldGrows("dividends", transaction'.TotalAmountEUR)
         /\ DividendFieldGrows("dividends_foreign", transaction'.TotalAmountEUR)
         /\ DividendFieldGrows("dividends_irish", 0)
         /\ DividendFiguresElsewhereUnchanged
         /\ LedgerUnchanged
         /\ RealizedGainsUnchanged
      ]_vars

(***************************************************************************)
(* C15, amended.  A merger_cash row whose EUR amount is positive adds it   *)
(* to dividends and to dividends_foreign of its year and asset class,      *)
(* whatever the domicile; a row whose amount is zero or negative changes   *)
(* no figure at all.  Neither touches the queue, the running totals or     *)
(* realized_gains.                                                         *)
(***************************************************************************)
C15_PositiveMergerCashAdds ==
    [][MergerCashStep =>
         /\ IF transaction'.TotalAmountEUR > 0
            THEN /\ DividendFieldGrows("dividends", transaction'.TotalAmountEUR)
                 /\ DividendFieldGrows("dividends_foreign", transaction'.TotalAmountEUR)
                 /\ DividendFieldGrows("dividends_irish", 0)
                 /\ DividendFiguresElsewhereUnchanged
            ELSE UNCHANGED <<summary, ticker_detail>>
         /\ LedgerUnchanged
         /\ RealizedGainsUnchanged
      ]_vars

\* Merger cash of a ticker domiciled in IE, on top of a dividend of the same
\* year: the dividend is Irish, the merger cash foreign.
C15_Witness ==
    /\ pc = "replay"
    /\ transaction.Type = "merger_cash"
    /\ transaction.TotalAmountEUR = 3
    /\ get_domicile(ticker) = "IE"
    /\ Get(ticker_detail[ticker].dividends, transaction.Year) = 6
    /\ Get(ticker_detail[ticker].dividends_irish, transaction.Year) = 3
    /\ Get(ticker_detail[ticker].dividends_foreign, transaction.Year) = 3

TransferStep == RowStep({"transfer_merger"})

(***************************************************************************)
(* C16, as stated.  Every transfer_merger row appends one lot at the back  *)
(* of the queue, of the row's quantity and unit cost 0, adds that quantity *)
(* to total_shares, leaves total_cost and the lots there were as they are, *)
(* and books no realized gain.                                             *)
(***************************************************************************)
C16_TransferAppendsLot ==
    [][TransferStep =>
         /\ Len(buy_queue') = Len(buy_queue) + 1
         /\ SubSeq(buy_queue', 1, Len(buy_queue)) = buy_queue
         /\ buy_queue'[Len(buy_queue')].quantity = transaction'.Quantity
         /\ buy_queue'[Len(buy_queue')].price_per_share_eur = 0
         /\ total_shares' = total_shares + transaction'.Quantity
         /\ total_cost' = total_cost
         /\ RealizedGainsUnchanged
      ]_vars

(***************************************************************************)
(* C16, amended.  A transfer_merger row of positive quantity appends one   *)
(* lot at the back of the queue, of the row's quantity and unit cost 0     *)
(* whatever unit price the row records, adds that quantity to              *)
(* total_shares and leaves the lots there were as they are; a row of       *)
(* quantity zero or less leaves the queue and total_shares as they are.    *)
(* Neither changes total_cost or books a realized gain.                    *)
(***************************************************************************)
C16_PositiveTransferAppendsLot ==
    [][TransferStep =>
         /\ IF transaction'.Quantity > 0
            THEN /\ Len(buy_queue') = Len(buy_queue) + 1
                 /\ SubSeq(buy_queue', 1, Len(buy_queue)) = buy_queue
                 /\ buy_queue'[Len(buy_queue')].quantity = transaction'.Quantity
                 /\ buy_queue'[Len(buy_queue')].price_per_share_eur = 0
                 /\ total_shares' = total_shares + transaction'.Quantity
            ELSE UNCHANGED <<buy_queue, total_shares>>
         /\ total_cost' = total_cost
         /\ RealizedGainsUnchanged
      ]_vars

\* A share transferred in, at a recorded price of 10, behind a bought lot.
C16_Witness ==
    /\ pc = "replay"
    /\ transaction.Type = "transfer_merger"
    /\ transaction.Quantity = 1
    /\ transaction.PricePerShareEUR = 10
    /\ Len(buy_queue) = 2
    /\ buy_queue[1].price_per_share_eur > 0
    /\ buy_queue[2] = [quantity |-> 1, price_per_share_eur |-> 0,
                       year |-> transaction.Year]
    /\ total_shares = buy_queue[1].quantity + 1
    /\ total_cost = buy_queue[1].quantity * buy_queue[1].price_per_share_eur

DividendStep == RowStep({"dividend"})

(***************************************************************************)
(* C17.  A dividend row leaves the queue, the running totals and           *)
(* realized_gains as they are, adds its EUR amount to dividends of its     *)
(* year and asset class, and adds it to exactly one sub-total:             *)
(* dividends_irish if the domicile of the instrument is IE, otherwise      *)
(* dividends_foreign.                                                      *)
(***************************************************************************)
C17_DividendSplitByDomicile ==
    [][DividendStep =>
         LET amount == transaction'.TotalAmountEUR
             irish == ticker_cache[ticker].domicile = "IE"
         IN  /\ LedgerUnchanged
             /\ RealizedGainsUnchanged
             /\ DividendFieldGrows("dividends", amount)
             /\ DividendFieldGrows("dividends_irish", IF irish THEN amount ELSE 0)
             /\ DividendFieldGrows("dividends_foreign", IF irish THEN 0 ELSE amount)
             /\ DividendFiguresElsewhereUnchanged
      ]_vars

\* A dividend of a stock domiciled in IE, after one of a stock domiciled
\* elsewhere, both of the same year.
C17_Witness ==
    /\ pc = "replay"
    /\ transaction.Type = "dividend"
    /\ AssetType(ticker) = "stocks"
    /\ ticker_cache[ticker].domicile = "IE"
    /\ Get(summary["stocks"].dividends, transaction.Year) = 6
    /\ Get(summary["stocks"].dividends_irish, transaction.Year) = 3
    /\ Get(summary["stocks"].dividends_foreign, transaction.Year) = 3
    /\ Get(ticker_detail[ticker].dividends_irish, transaction.Year) = 3
    /\ Get(ticker_detail[ticker].dividends_foreign, transaction.Year) = 0
    /\ buy_queue = <<>>

FinishStep == pc = "replay" /\ pc' = "finished"

(***************************************************************************)
(* C18.  When the rows of a ticker are replayed: if the ticker is inactive *)
(* and shares remain, realized_gains of the current year of its asset      *)
(* class falls by exactly the remaining total_cost and the ledger is       *)
(* zeroed (holdings reported 0, total_cost 0, no lot left); otherwise no   *)
(* loss is booked and the ledger stays as it is.                           *)
(***************************************************************************)
C18_InactiveWriteOff ==
    [][FinishStep =>
         LET a == AssetType(ticker) IN
         IF ~ticker_cache[ticker].active /\ total_shares > 0
         THEN /\ Get(summary'[a].realized_gains, CurrentYear)
                    = Get(summary[a].realized_gains, CurrentYear) - total_cost
              /\ Get(ticker_detail'[ticker].realized_gains, CurrentYear)
                    = Get(ticker_detail[ticker].realized_gains, CurrentYear) - total_cost
              /\ ticker_detail'[ticker].current_holdings = 0
              /\ total_shares' = 0
              /\ total_cost' = 0
              /\ buy_queue' = <<>>
         ELSE /\ RealizedGainsUnchanged
              /\ LedgerUnchanged
              /\ ticker_detail'[ticker].current_holdings = total_shares
      ]_vars

(***************************************************************************)
(* C19.  Once a ticker is done: a fund's deemed-disposal gain is the sum,  *)
(* over its retained Buy and transfer rows dated 2922 days (eight years)   *)
(* or more before the run, of a fifth of price x quantity of the row; its  *)
(* liability, in hundredths, is 41 times that gain; the gain is what the   *)
(* summary shows for funds under the current year.  A stock retains no row *)
(* and has gain and liability 0.                                           *)
(***************************************************************************)
RECURSIVE EightYearGains(_)
EightYearGains(rows) ==
    IF rows = <<>> THEN 0
    ELSE (IF current_date - Head(rows).Date >= 2922
          THEN (Head(rows).PricePerShareEUR * Head(rows).Quantity) \div 5
          ELSE 0)
         + EightYearGains(Tail(rows))

RECURSIVE SumOver(_, _)
SumOver(f, S) ==
    IF S = {} THEN 0
    ELSE LET x == CHOOSE x \in S : TRUE IN f[x] + SumOver(f, S \ {x})

C19_DeemedDisposal ==
    LET done == processed
        funds == {t \in done : ticker_cache[t].type = "etf"}
        gain == [t \in funds |-> EightYearGains(ticker_detail[t].buy_transactions)]
    IN  /\ \A t \in funds :
              /\ ticker_detail[t].deemed_disposal_liability = 41 * gain[t]
              /\ \A i \in DOMAIN ticker_detail[t].buy_transactions :
                    ticker_detail[t].buy_transactions[i].Type
                       \in {"buy", "transfer_merger"}
        /\ \A t \in Tickers \ funds :
              /\ ticker_detail[t].deemed_disposal_liability = 0
              /\ (ticker_cache[t].type # "etf" =>
                     ticker_detail[t].buy_transactions = <<>>)
        /\ Get(summary["etfs"].deemed_disposal_gains, CurrentYear)
              = SumOver(gain, funds)
        /\ \A y \in Years \ {CurrentYear} :
              Get(summary["etfs"].deemed_disposal_gains, y) = 0
        /\ "deemed_disposal_gains" \notin DOMAIN summary["stocks"]

\* A fund with two retained Buy rows, one dated eight years to the day before
\* the run and one a day later: the first alone counts.
C19_Witness ==
    /\ pc = "finished"
    /\ ticker = "FUND"
    /\ Len(ticker_detail["FUND"].buy_transactions) = 2
    /\ current_date - ticker_detail["FUND"].buy_transactions[1].Date = 2922
    /\ current_date - ticker_detail["FUND"].buy_transactions[2].Date = 2921
    /\ ticker_detail["FUND"].buy_transactions[1].PricePerShareEUR = 10
    /\ ticker_detail["FUND"].buy_transactions[1].Quantity = 2
    /\ ticker_detail["FUND"].buy_transactions[2].PricePerShareEUR = 30
    /\ ticker_detail["FUND"].deemed_disposal_liability = 164
    /\ Get(summary["etfs"].deemed_disposal_gains, CurrentYear) = 4


(***************************************************************************)
(* Claims about the preparation of the rows (PrepSpec).                    *)
(***************************************************************************)

\* The keyword rules in their priority, each with the kind it gives.
KindRules(str) ==
    << [matches |-> Contains(str, KW_BUY), kind |-> "buy"],
       [matches |-> Contains(str, KW_SELL), kind |-> "sell"],
       [matches |-> Contains(str, KW_DIVIDEND), kind |-> "dividend"],
       [matches |-> Contains(str, KW_MERGER) /\ Contains(str, KW_STOCK),
        kind |-> "merger_stock"],
       [matches |-> Contains(str, KW_MERGER) /\ Contains(str, KW_CASH),
        kind |-> "merger_cash"],
       [matches |-> Contains(str, KW_MERGER), kind |-> "merger"],
       [matches |-> Contains(str, KW_TRANSFER) /\ Contains(str, KW_BROKERS),
        kind |-> "transfer_broker"] >>

\* The kind of the first rule that matches, "ignore" when none does or the
\* type is missing.
KindByPriority(type_str) ==
    IF type_str = Absent THEN "ignore"
    ELSE LET rules == KindRules(Upper(type_str[1]))
             matching == {i \in DOMAIN rules : rules[i].matches}
         IN  IF matching = {} THEN "ignore"
             ELSE rules[CHOOSE i \in matching : \A j \in matching : i <= j].kind

\* The kinds of the rules that match the type.
KindsMatching(type_str) ==
    IF type_str = Absent THEN {}
    ELSE LET rules == KindRules(Upper(type_str[1]))
         IN  {rules[i].kind : i \in {j \in DOMAIN rules : rules[j].matches}}

\* C20. Every row, whatever its Type (missing, empty, lower case, several
\* keywords), is given a kind, and it is the kind of the highest-priority
\* keyword rule that matches the upper-cased Type: BUY, SELL, DIVIDEND,
\* MERGER (STOCK, then CASH, then plain), the inter-broker transfer phrase;
\* "ignore" when no rule matches or the Type is missing.
C20_KindByPriority ==
    ppc = "classified" =>
        \A i \in Rows(df) : df[i].TransactionType = KindByPriority(df[i].Type)

\* Rows were classified of which one matches the SELL and the BUY keyword
\* and was made a buy, and the other has no Type and was ignored.
C20_Witness ==
    /\ ppc = "classified"
    /\ Len(df) = 2
    /\ df[1].Type = <<Type_SellBuyback>>
    /\ {"buy", "sell"} \subseteq KindsMatching(df[1].Type)
    /\ df[1].TransactionType = "buy"
    /\ df[2].Type = Absent
    /\ df[2].TransactionType = "ignore"


\* The rule of conversion for a row: a currency other than EUR needs a rate
\* that is present and positive.
NeedsRate(row) == row.Currency # "EUR"

HasRate(row) == row.FXRate # Absent /\ row.FXRate[1] > 0

Converted(row, amount) ==
    IF NeedsRate(row) THEN amount \div row.FXRate[1] ELSE amount

\* The conversion has been done or has raised, and its outcome for the rows
\* in the given currencies is the rule's: it raised exactly when some row
\* needs a rate and has none, and otherwise every amount is unchanged (EUR)
\* or divided by the rate.
ConversionByRule(currencies) ==
    (ppc \in {"raised", "converted"} /\ \A i \in Rows(df) : df[i].Currency \in currencies) =>
        /\ ppc = "raised" <=> \E i \in Rows(df) : NeedsRate(df[i]) /\ ~HasRate(df[i])
        /\ ppc = "converted" =>
               \A i \in Rows(df) :
                   /\ df[i].TotalAmountEUR = Converted(df[i], df[i].TotalAmountFloat)
                   /\ df[i].PricePerShareEUR = Converted(df[i], df[i].PricePerShareFloat)

\* C12. An amount in EUR is returned unchanged, an amount in another
\* currency with a present, positive FX rate is returned divided by the
\* rate, and the conversion raises exactly when the currency is not EUR and
\* the rate is missing or not positive; no amount is taken 1:1.
C12_ConversionByRule == ConversionByRule(Currencies)


(***************************************************************************)
(* Claims about two runs on the same arguments (RerunSpec).                *)
(***************************************************************************)

\* C11. When the second run over the same rows, with the same resolver data,
\* evaluation date and margin rate, is over, its yearly totals, its figures
\* per ticker, its dividend taxes and the tax figures of every year of its
\* report are those of the first run, whatever ledger, lots, totals and loss
\* accumulator the first run left; the rows given are the same throughout.
C11_SecondRunSame ==
    /\ run = 2 /\ rpc = "done" => Returned = first
    /\ run \in {1, 2} => stream \in Seq(RerunRows) /\ InReplayOrder(stream)

\* A second run is over whose first run left lots in the deque, totals in
\* the results and losses in the accumulator.
C11_Witness ==
    /\ run = 2
    /\ rpc = "done"
    /\ Len(stream) = MaxEvents
    /\ first.report # <<>>
    /\ first.report[Len(first.report)].accumulated_losses > 0
    /\ \E y \in Years : Get(first.summary["stocks"].realized_gains, y) # 0
    /\ buy_queue # <<>>
    /\ Returned = first


(***************************************************************************)
(* Further claims about the replay (Spec).                                 *)
(***************************************************************************)
BuyStep == RowStep({"buy"})

(***************************************************************************)
(* C26.  A buy row of quantity q at unit price p on an original ticker of  *)
(* conversion ratio r appends exactly one lot at the back of the queue, of *)
(* quantity q x r and unit cost p / r, adds q x r to total_shares and      *)
(* q x p to total_cost, which is the cost of the new lot, and leaves the   *)
(* lots there were as they are.                                            *)
(***************************************************************************)
C26_BuyAppendsLot ==
    [][BuyStep =>
         LET q == transaction'.Quantity
             p == transaction'.PricePerShareEUR
             r == ticker_cache[transaction'.Ticker].conversion_ratio
             lot == buy_queue'[Len(buy_queue')]
         IN  /\ Len(buy_queue') = Len(buy_queue) + 1
             /\ SubSeq(buy_queue', 1, Len(buy_queue)) = buy_queue
             /\ lot.quantity = q * r
             /\ lot.price_per_share_eur * r = p
             /\ lot.quantity * lot.price_per_share_eur = q * p
             /\ total_shares' = total_shares + q * r
             /\ total_cost' = total_cost + q * p]_vars

\* Two shares of a ticker merged at ratio 2 were bought at 30 after another
\* lot: the new lot holds 4 shares at 15 behind the lot there was.
C26_Witness ==
    /\ pc = "replay"
    /\ transaction.Type = "buy"
    /\ transaction.Ticker = "OLDCO"
    /\ transaction.Quantity = 2
    /\ transaction.PricePerShareEUR = 30
    /\ Len(buy_queue) = 2
    /\ buy_queue[1].price_per_share_eur = 10
    /\ buy_queue[2].quantity = 4
    /\ buy_queue[2].price_per_share_eur = 15
    /\ total_cost = buy_queue[1].quantity * 10 + 60


\* The row replayed is one that is retained for the deemed disposal.
RetainedRow(tx) ==
    \/ tx.Type = "buy"
    \/ tx.Type = "transfer_merger" /\ tx.Quantity > 0

(***************************************************************************)
(* C28.  The deemed-disposal gain of a fund comes from the rows retained,  *)
(* not from the lots.  Every buy row and every transfer row of positive    *)
(* quantity of a fund is retained as recorded; a sell, a merger or any     *)
(* other row leaves the rows retained as they are, whatever it takes from  *)
(* the queue.  When the rows of the fund are through, the gain booked      *)
(* under the current year is the sum, over the rows retained that are      *)
(* eight years old, of a fifth of recorded price x recorded quantity,      *)
(* a transfer row counting at its recorded price although its lot has      *)
(* unit cost 0, and a row whose lot has been sold counting in full.        *)
(***************************************************************************)
C28_DeemedFromRetainedRows ==
    /\ [][(RowStep({"buy", "sell", "dividend", "merger", "merger_stock",
                     "merger_cash", "transfer_merger"})
            /\ ticker_cache[ticker].type = "etf")
           => ticker_detail'[ticker].buy_transactions
                 = IF RetainedRow(transaction')
                   THEN Append(ticker_detail[ticker].buy_transactions, transaction')
                   ELSE ticker_detail[ticker].buy_transactions]_vars
    /\ [][(FinishStep /\ ticker_cache[ticker].type = "etf")
           => /\ Get(summary'["etfs"].deemed_disposal_gains, CurrentYear)
                    - Get(summary["etfs"].deemed_disposal_gains, CurrentYear)
                 = EightYearGains(ticker_detail[ticker].buy_transactions)
              /\ ticker_detail'[ticker].buy_transactions
                    = ticker_detail[ticker].buy_transactions]_vars

\* A fund whose transfer row at price 10 and buy row at price 10, both eight
\* years old, were followed by the sale of both shares: no lot is left, and
\* the gain booked is a fifth of 10 for each of the two rows.
C28_Witness ==
    /\ pc = "finished"
    /\ ticker = "FUND"
    /\ buy_queue = <<>>
    /\ total_shares = 0
    /\ transaction.Type = "sell"
    /\ Len(ticker_detail["FUND"].buy_transactions) = 2
    /\ ticker_detail["FUND"].buy_transactions[1].Type = "transfer_merger"
    /\ ticker_detail["FUND"].buy_transactions[1].PricePerShareEUR = 10
    /\ ticker_detail["FUND"].buy_transactions[2].Type = "buy"
    /\ ticker_detail["FUND"].buy_transactions[2].PricePerShareEUR = 10
    /\ \A i \in 1..2 : current_date - ticker_detail["FUND"].buy_transactions[i].Date = 2922
    /\ Get(summary["etfs"].deemed_disposal_gains, CurrentYear) = 4


\* The sum of a figure of a year over the tickers of an asset class.
DetailTotal(a, field, y) ==
    SumOver([t \in Tickers |-> Get(ticker_detail[t][field], y)],
            {t \in Tickers : AssetType(t) = a})

(***************************************************************************)
(* C30.  At every point of the replay, for every asset class and year and  *)
(* for every ticker and year, dividends is dividends_irish plus            *)
(* dividends_foreign, and the dividends, the two sub-totals and the        *)
(* realized gains of an asset class are the sums of those of its tickers.  *)
(***************************************************************************)
C30_TotalsConsistent ==
    /\ \A a \in AssetTypes, y \in Years :
          Get(summary[a].dividends, y)
             = Get(summary[a].dividends_irish, y) + Get(summary[a].dividends_foreign, y)
    /\ \A t \in Tickers, y \in Years :
          Get(ticker_detail[t].dividends, y)
             = Get(ticker_detail[t].dividends_irish, y)
                  + Get(ticker_detail[t].dividends_foreign, y)
    /\ \A a \in AssetTypes, y \in Years :
          \A f \in {"dividends", "dividends_irish", "dividends_foreign", "realized_gains"} :
              Get(summary[a][f], y) = DetailTotal(a, f, y)

\* Two stocks have been paid a dividend in the same year, one Irish and one
\* foreign, and one of them has realized a gain.
C30_Witness ==
    /\ pc = "replay"
    /\ \E y \in Years :
          /\ Get(summary["stocks"].dividends, y) = 6
          /\ Get(summary["stocks"].dividends_irish, y) = 3
          /\ Get(summary["stocks"].dividends_foreign, y) = 3
          /\ Cardinality({t \in Tickers : Get(ticker_detail[t].dividends, y) = 3}) = 2
    /\ \E y \in Years : Get(summary["stocks"].realized_gains, y) # 0


(***************************************************************************)
(* Further claims about the preparation of the rows (PrepSpec).            *)
(***************************************************************************)
\* The row carries the inter-broker transfer phrase: it was classified a
\* broker transfer by its Type.
IsBrokerTransfer(row) == KindByPriority(row.Type) = "transfer_broker"

IsMergerRow(row) ==
    KindByPriority(row.Type) \in {"merger_stock", "merger_cash", "merger"}

(***************************************************************************)
(* C21.  Once the transfers are reclassified, a row with the inter-broker  *)
(* transfer phrase is a transfer_merger if and only if some merger_stock,  *)
(* merger_cash or merger row of the file, before or after it, resolves to  *)
(* the ticker it resolves to; otherwise it is ignored.  No other row       *)
(* changes its kind.                                                       *)
(***************************************************************************)
C21_TransferByMergerTicker ==
    ppc = "transfers" =>
        \A i \in Rows(df) :
            IF IsBrokerTransfer(df[i])
            THEN LET with_merger ==
                         \E j \in Rows(df) :
                             /\ IsMergerRow(df[j])
                             /\ normalize_ticker(df[j].Ticker) # NoTicker
                             /\ normalize_ticker(df[j].Ticker)
                                   = normalize_ticker(df[i].Ticker)
                 IN  df[i].TransactionType
                        = IF with_merger THEN "transfer_merger" ELSE "ignore"
            ELSE df[i].TransactionType = KindByPriority(df[i].Type)

\* A transfer row on OLDCO comes first, the merger row on ACME, to which
\* OLDCO resolves, comes after it, and the transfer is a transfer_merger.
C21_Witness ==
    /\ ppc = "transfers"
    /\ Len(df) = 2
    /\ df[1].Type = <<Type_BrokerTransfer>>
    /\ df[1].Ticker = "OLDCO"
    /\ df[1].TransactionType = "transfer_merger"
    /\ df[2].Type = <<Type_MergerCashRow>>
    /\ df[2].Ticker = "ACME"


\* The ledger a raw ticker belongs to: none for a missing or blank ticker
\* and for NONE and NAN in any case, the merger target for a ticker merged
\* into another, the ticker itself (the key of the cache) for any other.
ResolvedByRule(raw) ==
    IF raw \in {NaNTicker, "", "NONE", "NAN", "nan"} THEN NoTicker
    ELSE IF ticker_cache[TickerUpper(raw)].merged_into # NoTicker
    THEN ticker_cache[TickerUpper(raw)].merged_into
    ELSE TickerUpper(raw)

IsReplayedKind(row) ==
    row.TransactionType \in {"buy", "sell", "dividend", "merger_stock",
                             "merger_cash", "merger", "transfer_merger"}

(***************************************************************************)
(* C22.  Once the tickers are resolved, every row of a kind that is        *)
(* replayed has as NormalizedTicker the merger target of its ticker if the *)
(* instrument was merged, the ticker itself if not, and none if the ticker *)
(* is missing, blank, NONE or NAN; its Ticker column is as given.  The     *)
(* rows kept for the replay are the rows of those kinds whose ticker       *)
(* resolves, in the order of the file: a row without a resolved ticker is  *)
(* in no ledger.                                                           *)
(***************************************************************************)
C22_TickerResolution ==
    /\ ppc \in {"normalized", "converted", "ready"} =>
          \A i \in Rows(df) :
              IsReplayedKind(df[i]) =>
                  df[i].NormalizedTicker = ResolvedByRule(df[i].Ticker)
    /\ ppc = "ready" =>
          /\ \A k \in Rows(relevant_df) :
                /\ relevant_df[k].NormalizedTicker # NoTicker
                /\ relevant_df[k].NormalizedTicker \in Tickers
                /\ relevant_df[k].NormalizedTicker = ResolvedByRule(relevant_df[k].Ticker)
          /\ Len(relevant_df)
                = Cardinality({i \in Rows(df) :
                                  /\ IsReplayedKind(df[i])
                                  /\ ResolvedByRule(df[i].Ticker) # NoTicker})
          /\ \A i \in Rows(df) :
                (IsReplayedKind(df[i]) /\ ResolvedByRule(df[i].Ticker) # NoTicker)
                    => \E k \in Rows(relevant_df) : relevant_df[k] = df[i]

\* A buy row on OLDCO, merged into ACME, is kept under ACME with its Ticker
\* OLDCO, and a buy row whose ticker is NONE is dropped.
C22_Witness ==
    /\ ppc = "ready"
    /\ Len(df) = 2
    /\ df[1].Ticker = "NONE"
    /\ df[1].TransactionType = "buy"
    /\ df[1].NormalizedTicker = NoTicker
    /\ df[2].Ticker = "OLDCO"
    /\ df[2].TransactionType = "buy"
    /\ Len(relevant_df) = 1
    /\ relevant_df[1].Ticker = "OLDCO"
    /\ relevant_df[1].NormalizedTicker = "ACME"


\* convert_to_eur raises on one of the two amounts of the row.
RowRaises(row) ==
    \/ convert_to_eur(row.TotalAmountFloat, row.Currency, row.FXRate).raised
    \/ convert_to_eur(row.PricePerShareFloat, row.Currency, row.FXRate).raised

(***************************************************************************)
(* C27.  A row whose kind is ignore has no effect on a run, whatever its   *)
(* currency, FX rate and amounts: with it or without it the run raises or  *)
(* completes alike, and the rows replayed are the same.  Every step treats *)
(* a row by itself, but for the merger tickers, to which ignored rows add  *)
(* nothing; so the run of the file without its ignored rows raises exactly *)
(* if a row that is not ignored raises.                                    *)
(***************************************************************************)
C27_IgnoredRowsNoEffect ==
    /\ ppc = "raised" =>
          \E i \in Rows(df) : df[i].TransactionType # "ignore" /\ RowRaises(df[i])
    /\ ppc = "ready" =>
          /\ \A k \in Rows(relevant_df) : relevant_df[k].TransactionType # "ignore"
          /\ relevant_df
                = SelectSeq(SelectSeq(df, LAMBDA row : row.TransactionType # "ignore"),
                            LAMBDA row : row.NormalizedTicker # NoTicker)


(***************************************************************************)
(* Further claims about the end of a ticker's replay (Spec).               *)
(***************************************************************************)

\* A row that get_weighted_fx_rate counts: a buy or a sell in a currency
\* other than EUR with a present, positive FX rate.
FxBearing(tx) ==
    /\ tx.TransactionType \in {"buy", "sell"}
    /\ tx.Currency # "EUR"
    /\ tx.FXRate # Unset
    /\ tx.FXRate[1] > 0

NoFxBearingRow(rows) == \A i \in 1..Len(rows) : ~FxBearing(rows[i])

\* The end of the replay of a ticker quoted in another currency than EUR, of
\* which shares remain, and whose rows hold no FX-bearing buy or sell.
FallbackStep ==
    /\ FinishStep
    /\ OriginalCurrency(ticker) # "EUR"
    /\ total_shares' > 0
    /\ NoFxBearingRow(locals'.ticker_data)

(***************************************************************************)
(* C23.  When the replay of a ticker quoted in another currency than EUR   *)
(* ends with shares remaining and none of its rows is a buy or sell with a *)
(* valid FX rate, the weighted rate is not obtained, and the ticker's      *)
(* detail holds avg_cost_basis = total_cost / total_shares and the         *)
(* currency 'EUR', not the instrument's own currency.                      *)
(***************************************************************************)
C23_FallbackReportsEUR ==
    [][FallbackStep =>
          /\ locals'.avg_fx_rate = Unset
          /\ ticker_detail'[ticker].avg_cost_basis
                 = [num |-> total_cost', den |-> total_shares']
          /\ ticker_detail'[ticker].currency = "EUR"]_vars

\* What holds of the same step: the rate is not obtained and the average is
\* the cost in EUR over the shares, under the instrument's own currency.
FallbackKeepsNativeTag ==
    [][FallbackStep =>
          /\ locals'.avg_fx_rate = Unset
          /\ ticker_detail'[ticker].avg_cost_basis
                 = [num |-> total_cost', den |-> total_shares']
          /\ ticker_detail'[ticker].currency = OriginalCurrency(ticker)
          /\ OriginalCurrency(ticker) = "USD"]_vars

\* A state after such a step.
FallbackReached ==
    /\ pc = "finished"
    /\ OriginalCurrency(ticker) # "EUR"
    /\ total_shares > 0
    /\ locals.ticker_data # Unset
    /\ NoFxBearingRow(locals.ticker_data)
    /\ ticker_detail[ticker].currency # "EUR"

(***************************************************************************)
(* Claims about the order of the replay (OrderSpec).                       *)
(***************************************************************************)

\* The ledger a row is replayed under.
LedgerOf(row) == normalize_ticker(row.Ticker)

\* The rows of the ledger of rows[i] carry pairwise different dates.
DatesDiffer(rows) ==
    \A i, j \in 1..Len(rows) :
        i # j /\ LedgerOf(rows[i]) = LedgerOf(rows[j]) => rows[i].Date # rows[j].Date

\* Both calls are over.
BothRunsOver ==
    /\ run = 2
    /\ pc = "finished"
    /\ Pending(relevant_df, processed) = <<>>

(***************************************************************************)
(* C24.  Whatever the order of the rows given, the rows of a ticker are    *)
(* replayed in ascending Date, so no sell is replayed after a buy of its   *)
(* ticker that is dated later than the sell; and when the rows of each     *)
(* ticker carry pairwise different dates, a call on the same rows in       *)
(* another order returns the same ticker_detail.                           *)
(***************************************************************************)
C24_ReplayInDateOrder ==
    /\ \A i, j \in 1..Len(stream) :
           i < j /\ LedgerOf(stream[i]) = LedgerOf(stream[j])
               => stream[i].Date <= stream[j].Date
    /\ \A i, j \in 1..Len(stream) :
           /\ stream[j].Type = "sell"
           /\ stream[i].Type = "buy"
           /\ LedgerOf(stream[i]) = LedgerOf(stream[j])
           /\ stream[i].Date > stream[j].Date
           => j < i
    /\ BothRunsOver /\ DatesDiffer(relevant_df)
           => ticker_detail = first.ticker_detail

\* Both calls are over on three rows of one fund, all of different dates,
\* given the second time in another order, with the sell given before the
\* buys in one of them; the sell has consumed the lot of the earliest buy.
C24_Witness ==
    /\ BothRunsOver
    /\ Len(relevant_df) = MaxEvents
    /\ DatesDiffer(relevant_df)
    /\ \A i \in 1..Len(relevant_df) : LedgerOf(relevant_df[i]) = "FUND"
    /\ relevant_df[1].Type = "sell"
    /\ stream # relevant_df
    /\ Get(ticker_detail["FUND"].realized_gains, CurrentYear) = 10
    /\ ticker_detail = first.ticker_detail

(***************************************************************************)
(* C25.  Rows of one ticker that carry the same Date are replayed in the   *)
(* order in which they were given: a buy given before a sell of the same   *)
(* date is replayed before it.                                             *)
(***************************************************************************)
C25_SameDateInInputOrder ==
    \A i, j \in 1..Len(relevant_df) :
        /\ i < j
        /\ LedgerOf(relevant_df[i]) = LedgerOf(relevant_df[j])
        /\ relevant_df[i].Date = relevant_df[j].Date
        => \A k, l \in 1..Len(stream) :
              stream[k] = relevant_df[i] /\ stream[l] = relevant_df[j] => k < l

\* What holds of rows of the same date: they are replayed, in one order or
\* the other, between the rows of earlier and of later dates.
SameDateRowsTogether ==
    \A k, l, m \in 1..Len(stream) :
        /\ k < l /\ l < m
        /\ LedgerOf(stream[k]) = LedgerOf(stream[m])
        /\ stream[k].Date = stream[m].Date
        /\ LedgerOf(stream[l]) = LedgerOf(stream[k])
        => stream[l].Date = stream[k].Date

\* A sell has been replayed before the buy of the same date that was given
\* before it.
SellBeforeSameDateBuy ==
    /\ pc = "replay"
    /\ transaction.Type = "sell"
    /\ \E i, j \in 1..Len(relevant_df) :
          /\ i < j
          /\ relevant_df[i].Type = "buy"
          /\ relevant_df[j] = transaction
          /\ LedgerOf(relevant_df[i]) = ticker
          /\ relevant_df[i].Date = transaction.Date
          /\ n_events = 1

(***************************************************************************)
(* Claims about the export beside the report (ExportSpec).                 *)
(***************************************************************************)

\* The row of the stocks of a year in the exported summary.
StockRows(year) ==
    SelectSeq(summary_rows, LAMBDA row : row.Year = year /\ row.Asset_Type = "Stocks")

\* The years of the two yearly summaries.
ReportedYears == {report[i].year : i \in 1..Len(report)}

ExportedYears == {summary_rows[i].Year : i \in 1..Len(summary_rows)}

BothDone == rpc = "done" /\ epc = "done"

\* The stock figures of the report of a year are those of the export.
SameStockFigures(i) ==
    LET rows == StockRows(report[i].year)
    IN  rows # <<>> =>
           /\ Len(rows) = 1
           /\ rows[1].Taxable_Gains_Net_EUR = report[i].stock_taxable_gains
           /\ rows[1].Tax_Liability_EUR = report[i].stock_cgt_liability
           /\ rows[1].Carry_Forward_Loss_Used_EUR = report[i].carry_forward_used
           /\ rows[1].Losses_Carried_Forward_EUR = report[i].accumulated_losses

DeemedYears ==
    {y \in DOMAIN summary["etfs"].deemed_disposal_gains :
        summary["etfs"].deemed_disposal_gains[y] # 0}

(***************************************************************************)
(* C29.  Once generate_report and export_to_csv have both run on the       *)
(* results, for every year both cover the export holds the same stock      *)
(* taxable gain, CGT liability, carry-forward used and losses carried      *)
(* forward as the report, and every year with a non-zero deemed-disposal   *)
(* gain of the funds is a year of the report and a year of the export.     *)
(***************************************************************************)
C29_ExportAgreesWithReport ==
    BothDone =>
        /\ \A i \in 1..Len(report) : SameStockFigures(i)
        /\ DeemedYears \subseteq ReportedYears
        /\ DeemedYears \subseteq ExportedYears

\* What holds of the two: the same stock figures for the years of both, every
\* year of the report a year of the export, and every year with a
\* deemed-disposal gain a year of the export.
ExportCoversReport ==
    BothDone =>
        /\ \A i \in 1..Len(report) : SameStockFigures(i)
        /\ ReportedYears \subseteq ExportedYears
        /\ DeemedYears \subseteq ExportedYears

\* Both have run, the report on a year of losses before, and the export has
\* a year with a deemed-disposal gain that the report has not.
DeemedYearOnlyExported ==
    /\ BothDone
    /\ losses_total > 0
    /\ \E y \in DeemedYears : y \in ExportedYears \ ReportedYears

=============================================================================
